---- MODULE Spec2Model ----
(***************************************************************************)
(* The MCP configuration resolver of aider/mcp/config.py                   *)
(* (MCPConfigurationManager): four ranked JSON source files, the merge     *)
(* rule, the mtime-validated in-memory cache, and save_configuration.      *)
(*                                                                         *)
(* Optional[T] values are written None (the empty tuple) or Some(x) (the   *)
(* one-element tuple), so that every field keeps one shape.                *)
(*                                                                         *)
(* A string the program takes apart (a server name, a url, a command-line  *)
(* server spec) is the sequence of its characters, where a multi-letter    *)
(* atom such as "stdio" or "localhost" stands for a run of letters that no *)
(* operation splits; ":", "/" and " " are always characters of their own.  *)
(* A part cut out of such a string (a word of a command line) is again a   *)
(* sequence.  Strings that are only compared (transport, log_level, the    *)
(* words of a command read from a file) are TLA+ strings.                  *)
(***************************************************************************)
EXTENDS Integers, Sequences, FiniteSets, TLC

VARIABLES
    git_root,         \* MCPConfigurationManager.git_root: TRUE iff a project root was given
    paths,            \* ConfigurationPaths: per layer, TRUE iff the path is not None
    fs,               \* the source files on disk, per layer: exists, mtime, doc
    home_dir,         \* TRUE iff the directory <home>/.aider exists
    clock,            \* the file system's clock, in timestamp granules
    config_cache,     \* MCPConfigurationManager._config_cache (None or Some(config))
    cache_timestamp,  \* MCPConfigurationManager._cache_timestamp
    manager,          \* MCPClient.manager: the MCPManager and the sessions it made
    last              \* the last operation: its arguments and its outcome

vars == <<git_root, paths, fs, home_dir, clock, config_cache, cache_timestamp,
          manager, last>>

(***************************************************************************)
(* Bounds of the model.                                                    *)
(***************************************************************************)
\* The file system's clock runs from 1 to MaxTime.
MaxTime == 2

None == <<>>
Some(x) == <<x>>

(***************************************************************************)
(* The data model: MCPSettings, MCPServerConfig, MCPConfiguration.         *)
(***************************************************************************)
DefaultTimeout == 30
DefaultMaxRetries == 3
DefaultContextLimit == 10000
DefaultCacheTtl == 300

SettingsFields ==
    {"enabled", "timeout", "max_retries", "context_limit", "cache_ttl", "log_level"}

\* MCPSettings(): the field defaults of the class.
MCPSettings ==
    [enabled |-> TRUE, timeout |-> DefaultTimeout, max_retries |-> DefaultMaxRetries,
     context_limit |-> DefaultContextLimit, cache_ttl |-> DefaultCacheTtl,
     log_level |-> "INFO"]

\* str.upper() on the log-level strings the model uses.
upper(s) ==
    CASE s = "debug" -> "DEBUG"
      [] s = "Info" -> "INFO"
      [] s = "warning" -> "WARNING"
      [] s = "Warning" -> "WARNING"
      [] s = "verbose" -> "VERBOSE"
      [] OTHER -> s

valid_levels == {"DEBUG", "INFO", "WARNING", "ERROR", "CRITICAL"}

\* A validator that accepts any letter case and returns the level as given.
validate_log_level_keeps_case(v) ==
    IF upper(v) \notin valid_levels
    THEN [ok |-> FALSE, value |-> v]
    ELSE [ok |-> TRUE, value |-> v]

\* MCPSettings.validate_log_level: [ok, value]; not ok is the ValueError.
validate_log_level(v) ==
    IF upper(v) \notin valid_levels
    THEN [ok |-> FALSE, value |-> v]
    ELSE [ok |-> TRUE, value |-> upper(v)]

ServerKeys == {"name", "transport", "command", "url", "env", "enabled"}

\* MCPServerConfig(**raw): name and transport are required, the rest default.
MCPServerConfig(raw) ==
    IF "name" \notin DOMAIN raw \/ "transport" \notin DOMAIN raw
    THEN [ok |-> FALSE, value |-> None]
    ELSE [ok |-> TRUE,
          value |-> Some(
            [name |-> raw.name,
             transport |-> raw.transport,
             command |-> IF "command" \in DOMAIN raw THEN raw.command ELSE None,
             url |-> IF "url" \in DOMAIN raw THEN raw.url ELSE None,
             env |-> IF "env" \in DOMAIN raw THEN raw.env ELSE None,
             enabled |-> IF "enabled" \in DOMAIN raw THEN raw.enabled ELSE TRUE])]

\* MCPSettings(**raw): the fields given are validated and recorded as set
\* (model_fields_set), the others take their defaults.
ParseSettings(raw) ==
    LET lvl == IF "log_level" \in DOMAIN raw
               THEN validate_log_level(raw.log_level)
               ELSE [ok |-> TRUE, value |-> MCPSettings.log_level]
    IN  IF ~lvl.ok
        THEN [ok |-> FALSE, settings |-> MCPSettings, fields_set |-> {}]
        ELSE [ok |-> TRUE,
              settings |-> [f \in SettingsFields |->
                              IF f = "log_level" THEN lvl.value
                              ELSE IF f \in DOMAIN raw THEN raw[f]
                              ELSE MCPSettings[f]],
              fields_set |-> DOMAIN raw]

\* MCPConfiguration(): default settings, none of them set, and no servers.
MCPConfiguration ==
    [settings |-> MCPSettings, fields_set |-> {}, servers |-> <<>>]

\* MCPConfiguration(**data) for a JSON object with optional keys settings and servers.
ParseConfiguration(data) ==
    LET s == IF "settings" \in DOMAIN data
             THEN ParseSettings(data.settings)
             ELSE [ok |-> TRUE, settings |-> MCPSettings, fields_set |-> {}]
        raws == IF "servers" \in DOMAIN data THEN data.servers ELSE <<>>
        parsed == [i \in DOMAIN raws |-> MCPServerConfig(raws[i])]
    IN  IF ~s.ok \/ \E i \in DOMAIN parsed : ~parsed[i].ok
        THEN [ok |-> FALSE, config |-> MCPConfiguration]
        ELSE [ok |-> TRUE,
              config |-> [settings |-> s.settings,
                          fields_set |-> s.fields_set,
                          servers |-> [i \in DOMAIN parsed |-> parsed[i].value[1]]]]

\* _load_config_file on the text of a file: json.load, then MCPConfiguration(**data).
\* Not ok stands for the ValueError raised on bad JSON or a failed validation.
_load_config_file(doc) ==
    IF ~doc.json
    THEN [ok |-> FALSE, config |-> MCPConfiguration]
    ELSE ParseConfiguration(doc.data)

\* A merge that replaces the settings as a whole once the override sets any field.
merge_whole_settings(base, override) ==
    [settings |-> IF override.fields_set # {} THEN override.settings ELSE base.settings,
     fields_set |-> SettingsFields,
     servers |-> IF override.servers # <<>> THEN override.servers ELSE base.servers]

\* A merge that appends the override's servers to the base's.
merge_append_servers(base, override) ==
    [settings |-> [f \in SettingsFields |->
                     IF f \in override.fields_set THEN override.settings[f]
                     ELSE base.settings[f]],
     fields_set |-> SettingsFields,
     servers |-> base.servers \o override.servers]

\* A merge that takes the override's server list even when it is empty.
merge_takes_override_servers(base, override) ==
    [settings |-> [f \in SettingsFields |->
                     IF f \in override.fields_set THEN override.settings[f]
                     ELSE base.settings[f]],
     fields_set |-> SettingsFields,
     servers |-> override.servers]

\* A merge that takes every settings field from the override.
merge_override_settings(base, override) ==
    [settings |-> override.settings,
     fields_set |-> SettingsFields,
     servers |-> IF override.servers # <<>> THEN override.servers ELSE base.servers]

\* A merge that keeps the servers of the base whose names the override lacks.
merge_servers_by_name(base, override) ==
    [settings |-> [f \in SettingsFields |->
                     IF f \in override.fields_set THEN override.settings[f]
                     ELSE base.settings[f]],
     fields_set |-> SettingsFields,
     servers |-> override.servers
                 \o SelectSeq(base.servers,
                              LAMBDA b : \A i \in DOMAIN override.servers :
                                             override.servers[i].name # b.name)]

\* _merge_configurations(base, override).
_merge_configurations(base, override) ==
    LET merged_settings ==
            [f \in SettingsFields |->
                IF f \in override.fields_set THEN override.settings[f]
                ELSE base.settings[f]]
        merged_servers ==
            IF override.servers # <<>> THEN override.servers ELSE base.servers
    IN  [settings |-> merged_settings,
         fields_set |-> SettingsFields,
         servers |-> merged_servers]

(***************************************************************************)
(* The contents a source file can have.                                    *)
(***************************************************************************)
\* {"name":"s1","transport":"stdio","command":["echo","hi"]}: enabled omitted.
RawS1 == [name |-> <<"s", "1">>, transport |-> "stdio", command |-> Some(<<"echo", "hi">>)]
\* {"name":"db","transport":"websocket","url":"ws://localhost:9000/mcp","enabled":false}
RawDb == [name |-> <<"db">>, transport |-> "websocket",
          url |-> Some(<<"ws", ":", "/", "/", "localhost", ":", "9000", "/", "mcp">>),
          enabled |-> FALSE]
\* A server entry without name.
RawNoName == [transport |-> "stdio", command |-> Some(<<"echo">>)]

\* Text that is not JSON.
DocGarbage == [json |-> FALSE, data |-> <<>>]
\* JSON that fails the schema: an invalid log_level.
DocBadLevel ==
    [json |-> TRUE,
     data |-> [settings |-> [timeout |-> 5, log_level |-> "verbose"],
               servers |-> <<RawDb>>]]
\* JSON that fails the schema: a server entry without name.
DocNoName ==
    [json |-> TRUE,
     data |-> [settings |-> [timeout |-> 7], servers |-> <<RawNoName>>]]
\* Settings only, the log level in lower case.
DocA == [json |-> TRUE, data |-> [settings |-> [timeout |-> 60, log_level |-> "debug"]]]
\* Settings that set timeout to its default explicitly, and one server.
DocB ==
    [json |-> TRUE,
     data |-> [settings |-> [timeout |-> 30, enabled |-> FALSE], servers |-> <<RawS1>>]]
\* The file of the loading scenario: one stdio server and nothing else.
DocS1 == [json |-> TRUE, data |-> [servers |-> <<RawS1>>]]
\* Servers only.
DocC == [json |-> TRUE, data |-> [servers |-> <<RawDb, RawS1>>]]
\* The remaining settings, and a server list that is present but empty.
DocD ==
    [json |-> TRUE,
     data |-> [settings |-> [max_retries |-> 0, context_limit |-> 5000,
                             cache_ttl |-> 60, log_level |-> "Warning"],
               servers |-> <<>>]]

\* The documents the pure-load specification draws its files from.
LoadDocs == {DocGarbage, DocBadLevel, DocNoName, DocA, DocB, DocS1, DocC, DocD}
\* The documents other programs write while the resolver runs: two per path,
\* the malformed one in the local file.
WriteDocs(f) == IF f = "local" THEN {DocBadLevel, DocA} ELSE {DocA, DocB}

\* A Configuration a caller saves (test_mcp_integration.py builds the like).
SavedConfig ==
    [settings |-> [enabled |-> TRUE, timeout |-> 45, max_retries |-> 3,
                   context_limit |-> 5000, cache_ttl |-> 300, log_level |-> "DEBUG"],
     fields_set |-> SettingsFields,
     servers |-> <<[name |-> <<"test-server">>, transport |-> "stdio",
                    command |-> Some(<<"echo", "test">>), url |-> None,
                    env |-> None, enabled |-> TRUE]>>]
SaveConfigs == {SavedConfig}

\* A dump that leaves the enabled key of the servers out.
dump_without_enabled(config) ==
    [json |-> TRUE,
     data |-> [settings |-> config.settings,
               servers |-> [i \in DOMAIN config.servers |->
                              [k \in ServerKeys \ {"enabled"} |-> config.servers[i][k]]]]]

\* config.model_dump() written by json.dump: every settings field and every
\* server key is present, None as null.
model_dump(config) ==
    [json |-> TRUE, data |-> [settings |-> config.settings, servers |-> config.servers]]

(***************************************************************************)
(* The file system and the resolver's view of it.                          *)
(***************************************************************************)
Absent == [exists |-> FALSE, mtime |-> 0, doc |-> DocGarbage]
File(t, doc) == [exists |-> TRUE, mtime |-> t, doc |-> doc]

\* config_files of load_configuration and _get_newest_config_file, lowest rank first.
config_files == <<"global", "project", "local", "env">>
LayerNames == {config_files[i] : i \in DOMAIN config_files}

\* `config_file and config_file.exists()`
exists(fsys, f) == paths[f] /\ fsys[f].exists

\* os.path.getmtime: not ok stands for the OSError on a missing file.
getmtime(fsys, f) ==
    IF fsys[f].exists THEN [ok |-> TRUE, t |-> fsys[f].mtime] ELSE [ok |-> FALSE, t |-> 0]

\* A newest-file lookup that takes the first existing file, not the newest.
newest_is_first_existing(fsys) ==
    LET existing_files == SelectSeq(config_files, LAMBDA f : exists(fsys, f))
    IN  IF existing_files = <<>> THEN "global" ELSE existing_files[1]

\* _get_newest_config_file: max() keeps the first of the newest files; the
\* global path stands in when no file exists.
_get_newest_config_file(fsys) ==
    LET existing_files == SelectSeq(config_files, LAMBDA f : exists(fsys, f))
    IN  IF existing_files = <<>>
        THEN "global"
        ELSE LET i == CHOOSE i \in DOMAIN existing_files :
                        /\ \A j \in DOMAIN existing_files :
                              fsys[existing_files[j]].mtime <= fsys[existing_files[i]].mtime
                        /\ \A j \in 1..(i - 1) :
                              fsys[existing_files[j]].mtime < fsys[existing_files[i]].mtime
             IN  existing_files[i]

\* A validity check that wants the newest file strictly older than the timestamp.
is_cache_valid_strict(stat_error) ==
    IF stat_error
    THEN FALSE
    ELSE LET newest_file_time == getmtime(fs, _get_newest_config_file(fs))
         IN  IF ~newest_file_time.ok
             THEN FALSE
             ELSE newest_file_time.t < cache_timestamp

\* A validity check that keeps the cache when the stat fails.
is_cache_valid_on_error(stat_error) ==
    IF stat_error
    THEN TRUE
    ELSE LET newest_file_time == getmtime(fs, _get_newest_config_file(fs))
         IN  IF ~newest_file_time.ok
             THEN TRUE
             ELSE newest_file_time.t <= cache_timestamp

\* _is_cache_valid: stat_error is an OSError raised by the stat calls of the check.
_is_cache_valid(stat_error) ==
    IF stat_error
    THEN FALSE
    ELSE LET newest_file_time == getmtime(fs, _get_newest_config_file(fs))
         IN  IF ~newest_file_time.ok
             THEN FALSE
             ELSE newest_file_time.t <= cache_timestamp

\* A loop turn that falls back to the default Configuration on a malformed file.
ApplyConfigFileReset(fsys, config, config_file) ==
    IF exists(fsys, config_file)
    THEN LET file_config == _load_config_file(fsys[config_file].doc)
         IN  IF file_config.ok
             THEN _merge_configurations(config, file_config.config)
             ELSE MCPConfiguration
    ELSE config

\* One turn of the loop of load_configuration (lines 101-107).
ApplyConfigFile(fsys, config, config_file) ==
    IF exists(fsys, config_file)
    THEN LET file_config == _load_config_file(fsys[config_file].doc)
         IN  IF file_config.ok
             THEN _merge_configurations(config, file_config.config)
             ELSE config
    ELSE config

\* The loop of load_configuration over config_files[1..n], from the default.
RECURSIVE MergeConfigFiles(_, _)
MergeConfigFiles(fsys, n) ==
    IF n = 0
    THEN MCPConfiguration
    ELSE ApplyConfigFile(fsys, MergeConfigFiles(fsys, n - 1), config_files[n])

(***************************************************************************)
(* The record of the last operation.                                       *)
(***************************************************************************)
NoOp ==
    [op |-> "init", force |-> FALSE, stat_error |-> FALSE, had_cache |-> FALSE,
     real |-> FALSE, reads |-> {}, raised |-> "none", value |-> None,
     scope |-> "", layer |-> "", old_mtime |-> 0, args |-> <<>>, fresh |-> FALSE,
     cause |-> "none"]

(***************************************************************************)
(* The operations of MCPConfigurationManager.                              *)
(***************************************************************************)
load_configuration(force_reload, stat_error) ==
    LET call == [NoOp EXCEPT !.op = "load", !.force = force_reload,
                             !.had_cache = (config_cache # None),
                             !.stat_error = stat_error]
    IN  IF ~force_reload /\ config_cache # None /\ _is_cache_valid(stat_error)
        THEN /\ last' = [call EXCEPT !.value = config_cache]
             /\ UNCHANGED <<manager, git_root, paths, fs, home_dir, clock, config_cache,
                            cache_timestamp>>
        ELSE LET config == MergeConfigFiles(fs, Len(config_files))
                 newest == getmtime(fs, _get_newest_config_file(fs))
                 done == [call EXCEPT !.real = TRUE,
                                      !.reads = {f \in LayerNames : exists(fs, f)}]
             IN  /\ config_cache' = Some(config)
                 /\ IF newest.ok
                    THEN /\ cache_timestamp' = newest.t
                         /\ last' = [done EXCEPT !.value = Some(config)]
                    ELSE /\ UNCHANGED cache_timestamp
                         /\ last' = [done EXCEPT !.raised = "OSError"]
                 /\ UNCHANGED <<manager, git_root, paths, fs, home_dir, clock>>

Scopes == {"global", "project", "local", "env"}

\* A save that leaves the cached snapshot in place.
save_keeps_cache(config, scope) ==
    LET config_path ==
            IF scope = "global" THEN Some("global")
            ELSE IF scope = "project" /\ paths["project"] THEN Some("project")
            ELSE IF scope = "local" THEN Some("local")
            ELSE None
        call == [NoOp EXCEPT !.op = "save", !.scope = scope, !.args = <<config>>]
    IN  IF config_path = None
        THEN /\ last' = [call EXCEPT !.raised = "ValueError"]
             /\ UNCHANGED <<manager, git_root, paths, fs, home_dir, clock, config_cache,
                            cache_timestamp>>
        ELSE /\ home_dir' = (home_dir \/ config_path[1] = "global")
             /\ fs' = [fs EXCEPT ![config_path[1]] = File(clock, model_dump(config))]
             /\ last' = [call EXCEPT !.layer = config_path[1]]
             /\ UNCHANGED <<manager, git_root, paths, clock, config_cache, cache_timestamp>>

\* A save that writes the local file when the project scope has no path.
save_project_falls_back(config, scope) ==
    LET config_path ==
            IF scope = "global" THEN Some("global")
            ELSE IF scope = "project" /\ paths["project"] THEN Some("project")
            ELSE IF scope = "local" \/ scope = "project" THEN Some("local")
            ELSE None
        call == [NoOp EXCEPT !.op = "save", !.scope = scope, !.args = <<config>>]
    IN  IF config_path = None
        THEN /\ last' = [call EXCEPT !.raised = "ValueError"]
             /\ UNCHANGED <<manager, git_root, paths, fs, home_dir, clock, config_cache,
                            cache_timestamp>>
        ELSE /\ home_dir' = (home_dir \/ config_path[1] = "global")
             /\ fs' = [fs EXCEPT ![config_path[1]] = File(clock, model_dump(config))]
             /\ config_cache' = None
             /\ last' = [call EXCEPT !.layer = config_path[1]]
             /\ UNCHANGED <<manager, git_root, paths, clock, cache_timestamp>>

save_configuration(config, scope) ==
    LET config_path ==
            IF scope = "global" THEN Some("global")
            ELSE IF scope = "project" /\ paths["project"] THEN Some("project")
            ELSE IF scope = "local" THEN Some("local")
            ELSE None
        call == [NoOp EXCEPT !.op = "save", !.scope = scope, !.args = <<config>>]
    IN  IF config_path = None
        THEN /\ last' = [call EXCEPT !.raised = "ValueError"]
             /\ UNCHANGED <<manager, git_root, paths, fs, home_dir, clock, config_cache,
                            cache_timestamp>>
        ELSE /\ home_dir' = (home_dir \/ config_path[1] = "global")
             /\ fs' = [fs EXCEPT ![config_path[1]] = File(clock, model_dump(config))]
             /\ config_cache' = None
             /\ last' = [call EXCEPT !.layer = config_path[1]]
             /\ UNCHANGED <<manager, git_root, paths, clock, cache_timestamp>>

(***************************************************************************)
(* The environment: other programs write and delete the source files, and  *)
(* time passes.  A write stamps the file with the current clock value; the *)
(* clock need not have advanced since the last write or load.              *)
(***************************************************************************)
\* A snapshot is cached and it is what a load of the files as they are
\* returns: every existing file contributed to it as it is now.  The record
\* of a change to the files keeps this, as it was before the change.
CacheIsFresh == config_cache = Some(MergeConfigFiles(fs, Len(config_files)))

WriteFile(f, doc) ==
    /\ paths[f]
    /\ fs[f].exists => fs[f].doc # doc
    /\ fs' = [fs EXCEPT ![f] = File(clock, doc)]
    /\ home_dir' = (home_dir \/ f = "global")
    /\ last' = [NoOp EXCEPT !.op = IF fs[f].exists THEN "modify" ELSE "create",
                            !.layer = f, !.old_mtime = fs[f].mtime,
                            !.fresh = CacheIsFresh]
    /\ UNCHANGED <<manager, git_root, paths, clock, config_cache, cache_timestamp>>

DeleteFile(f) ==
    /\ fs[f].exists
    /\ fs' = [fs EXCEPT ![f] = Absent]
    /\ last' = [NoOp EXCEPT !.op = "delete", !.layer = f, !.old_mtime = fs[f].mtime,
                            !.fresh = CacheIsFresh]
    /\ UNCHANGED <<manager, git_root, paths, home_dir, clock, config_cache, cache_timestamp>>

Tick ==
    /\ clock < MaxTime
    /\ clock' = clock + 1
    /\ last' = NoOp
    /\ UNCHANGED <<manager, git_root, paths, fs, home_dir, config_cache, cache_timestamp>>

(***************************************************************************)
(* The MCPManager as constructed, and the state no pure call touches.      *)
(***************************************************************************)
\* MCPManager.__init__.  available is MCP_AVAILABLE; made lists every
\* MCPClientSession the manager has created, sessions maps a name to the place
\* of its session in made, and session_order lists the keys of the sessions
\* dict in the order a loop over it takes them (the order of first insertion).
MCPManager ==
    [available |-> TRUE, sessions |-> <<>>, session_order |-> <<>>,
     available_tools |-> <<>>, available_resources |-> <<>>, connected |-> FALSE,
     made |-> <<>>]

others ==
    <<git_root, paths, fs, home_dir, clock, config_cache, cache_timestamp, manager>>

\* A resolver without project root and environment path, no source file on
\* disk, and a manager that has connected nothing.
Quiet ==
    /\ git_root = FALSE
    /\ paths = [global |-> TRUE, project |-> FALSE, local |-> TRUE, env |-> FALSE]
    /\ fs = [f \in LayerNames |-> Absent]
    /\ home_dir = FALSE
    /\ clock = 1
    /\ config_cache = None
    /\ cache_timestamp = 0
    /\ manager = MCPManager

(***************************************************************************)
(* Spec: a resolver constructed with a project root, with AIDER_MCP_CONFIG *)
(* or with neither (two or three source paths), on a disk that holds no    *)
(* source file yet.  SpecLoad below covers all four paths together.        *)
(***************************************************************************)
Init ==
    /\ git_root \in BOOLEAN
    /\ \E env \in BOOLEAN :
          /\ ~(git_root /\ env)
          /\ paths = [global |-> TRUE, project |-> git_root, local |-> TRUE, env |-> env]
    /\ fs = [f \in LayerNames |-> Absent]
    /\ home_dir = FALSE
    /\ clock = 1
    /\ config_cache = None
    /\ cache_timestamp = 0
    /\ manager = MCPManager
    /\ last = NoOp

Next ==
    \/ \E force_reload \in BOOLEAN, stat_error \in BOOLEAN :
          load_configuration(force_reload, stat_error)
    \/ \E config \in SaveConfigs, scope \in Scopes : save_configuration(config, scope)
    \/ \E f \in LayerNames : \E doc \in WriteDocs(f) : WriteFile(f, doc)
    \/ \E f \in LayerNames : DeleteFile(f)
    \/ Tick

Spec == Init /\ [][Next]_vars

(***************************************************************************)
(* SpecLoad: load_configuration as a function of the files.  The disk      *)
(* holds any combination of absent, malformed and valid source files when  *)
(* the resolver is constructed, and only the resolver acts.                *)
(***************************************************************************)
InitLoad ==
    /\ git_root \in BOOLEAN
    /\ \E env \in BOOLEAN :
          paths = [global |-> TRUE, project |-> git_root, local |-> TRUE, env |-> env]
    /\ fs \in [LayerNames -> {Absent} \cup {File(1, d) : d \in LoadDocs}]
    /\ \A f \in LayerNames : ~paths[f] => fs[f] = Absent
    /\ home_dir = TRUE
    /\ clock = 1
    /\ config_cache = None
    /\ cache_timestamp = 0
    /\ manager = MCPManager
    /\ last = NoOp

NextLoad ==
    \E force_reload \in BOOLEAN, stat_error \in BOOLEAN :
        load_configuration(force_reload, stat_error)

SpecLoad == InitLoad /\ [][NextLoad]_vars

(***************************************************************************)
(* SpecRace: load_configuration in two steps, with another program writing *)
(* a source file in between.  load_read is the cache check and the loop    *)
(* over the files (lines 87-107); while last.op = "reading" the call holds *)
(* the merged Configuration in its local `config` (last.value) and has not *)
(* yet run lines 110-113, which load_stamp does.  The resolver takes no    *)
(* lock, so the other program and the clock move between the two.          *)
(***************************************************************************)
\* Lines 87-107: the cache check, and on a miss the loop that reads the files.
load_read(force_reload) ==
    LET call == [NoOp EXCEPT !.op = "load", !.force = force_reload,
                             !.had_cache = (config_cache # None)]
    IN  /\ last.op # "reading"
        /\ IF ~force_reload /\ config_cache # None /\ _is_cache_valid(FALSE)
           THEN last' = [call EXCEPT !.value = config_cache]
           ELSE last' = [call EXCEPT !.op = "reading", !.real = TRUE,
                                     !.reads = {f \in LayerNames : exists(fs, f)},
                                     !.value = Some(MergeConfigFiles(fs, Len(config_files)))]
        /\ UNCHANGED others

\* Lines 110-113: the snapshot read earlier is cached, the timestamp is the
\* mtime of the newest file as it is now, and the snapshot is returned.
load_stamp ==
    LET newest == getmtime(fs, _get_newest_config_file(fs))
    IN  /\ last.op = "reading"
        /\ config_cache' = last.value
        /\ IF newest.ok
           THEN /\ cache_timestamp' = newest.t
                /\ last' = [last EXCEPT !.op = "load"]
           ELSE /\ UNCHANGED cache_timestamp
                /\ last' = [last EXCEPT !.op = "load", !.value = None,
                                        !.raised = "OSError"]
        /\ UNCHANGED <<manager, git_root, paths, fs, home_dir, clock>>

\* Another program rewrites an existing source file while the load is between
\* its two steps; the load's record keeps which file, and the mtime it had
\* when the load read it.
ModifyDuringLoad(f, doc) ==
    /\ last.op = "reading"
    /\ last.layer = ""
    /\ exists(fs, f)
    /\ fs[f].doc # doc
    /\ fs' = [fs EXCEPT ![f] = File(clock, doc)]
    /\ last' = [last EXCEPT !.layer = f, !.old_mtime = fs[f].mtime]
    /\ UNCHANGED <<manager, git_root, paths, home_dir, clock, config_cache,
                   cache_timestamp>>

\* Time passes while the load is between its two steps.
Elapse ==
    /\ last.op = "reading"
    /\ clock < MaxTime
    /\ clock' = clock + 1
    /\ UNCHANGED <<manager, git_root, paths, fs, home_dir, config_cache,
                   cache_timestamp, last>>

RaceDocs == {DocA, DocB, DocS1}

\* The source files exist before the resolver is constructed, written at time 1.
InitRace ==
    /\ git_root = FALSE
    /\ paths = [global |-> TRUE, project |-> FALSE, local |-> TRUE, env |-> FALSE]
    /\ fs \in [LayerNames -> {Absent} \cup {File(1, d) : d \in RaceDocs}]
    /\ \A f \in LayerNames : ~paths[f] => fs[f] = Absent
    /\ home_dir = TRUE
    /\ clock = 1
    /\ config_cache = None
    /\ cache_timestamp = 0
    /\ manager = MCPManager
    /\ last = NoOp

NextRace ==
    \/ \E force_reload \in BOOLEAN : load_read(force_reload)
    \/ load_stamp
    \/ \E f \in LayerNames : \E doc \in RaceDocs : ModifyDuringLoad(f, doc)
    \/ Elapse

SpecRace == InitRace /\ [][NextRace]_vars

(***************************************************************************)
(* String operations of Python, on sequences of characters.                *)
(***************************************************************************)
Whitespace == {" "}

\* bool(x) of an Optional list or Optional str: None and the empty value are false.
truthy(opt) == opt # None /\ opt[1] # <<>>

\* s.startswith(prefixes) for a tuple of prefixes.
startswith(s, prefixes) ==
    \E p \in prefixes : Len(s) >= Len(p) /\ SubSeq(s, 1, Len(p)) = p

\* s.strip(): the leading and trailing whitespace removed.
RECURSIVE lstrip(_)
lstrip(s) == IF s # <<>> /\ Head(s) \in Whitespace THEN lstrip(Tail(s)) ELSE s
RECURSIVE rstrip(_)
rstrip(s) ==
    IF s # <<>> /\ s[Len(s)] \in Whitespace THEN rstrip(SubSeq(s, 1, Len(s) - 1)) ELSE s
strip(s) == rstrip(lstrip(s))

\* s.split(sep, maxsplit): at most maxsplit cuts, at the leftmost separators.
RECURSIVE split(_, _, _)
split(s, sep, maxsplit) ==
    IF maxsplit = 0 \/ \A i \in DOMAIN s : s[i] # sep
    THEN <<s>>
    ELSE LET i == CHOOSE i \in DOMAIN s :
                      s[i] = sep /\ \A j \in 1..(i - 1) : s[j] # sep
         IN  <<SubSeq(s, 1, i - 1)>> \o split(SubSeq(s, i + 1, Len(s)), sep, maxsplit - 1)

\* s.split(): the runs of non-whitespace characters.
RECURSIVE split_whitespace(_)
split_whitespace(s) ==
    LET t == lstrip(s)
    IN  IF t = <<>>
        THEN <<>>
        ELSE LET ends == {i \in DOMAIN t : t[i] \in Whitespace}
                 n == IF ends = {} THEN Len(t) + 1
                      ELSE CHOOSE i \in ends : \A j \in ends : i <= j
             IN  <<SubSeq(t, 1, n - 1)>> \o split_whitespace(SubSeq(t, n, Len(t)))

(***************************************************************************)
(* parse_mcp_server_spec (manager.py).                                     *)
(***************************************************************************)
\* The outcome of a call: the exception raised, if any, and the value returned.
Return(x) == [raised |-> "none", value |-> x]

\* MCPServerConfig(name=..., transport=..., ...) called by the program: the
\* definition, or pydantic's ValidationError.
Construct(raw) ==
    LET r == MCPServerConfig(raw)
    IN  IF r.ok THEN Return(r.value) ELSE [raised |-> "ValidationError", value |-> None]

\* A parse that cuts the spec at every colon.
parse_splits_every_colon(server_spec) ==
    LET parts == split(server_spec, ":", Len(server_spec))
    IN  IF Len(parts) < 2 THEN Return(None)
        ELSE IF parts[2] = <<"stdio">>
        THEN IF Len(parts) < 3 THEN Return(None)
             ELSE Construct([name |-> parts[1], transport |-> "stdio",
                             command |-> Some(split_whitespace(parts[3]))])
        ELSE IF parts[2] = <<"websocket">>
        THEN IF Len(parts) < 3 THEN Return(None)
             ELSE Construct([name |-> parts[1], transport |-> "websocket",
                             url |-> Some(parts[3])])
        ELSE Return(None)

\* parse_mcp_server_spec(server_spec): returns None or Some(MCPServerConfig).
parse_mcp_server_spec(server_spec) ==
    LET parts == split(server_spec, ":", 2)
    IN  IF Len(parts) < 2 THEN Return(None)
        ELSE IF parts[2] = <<"stdio">>
        THEN IF Len(parts) < 3 THEN Return(None)
             ELSE Construct([name |-> parts[1], transport |-> "stdio",
                             command |-> Some(split_whitespace(parts[3]))])
        ELSE IF parts[2] = <<"websocket">>
        THEN IF Len(parts) < 3 THEN Return(None)
             ELSE Construct([name |-> parts[1], transport |-> "websocket",
                             url |-> Some(parts[3])])
        ELSE Return(None)

(***************************************************************************)
(* validate_configuration and _validate_server_config (config.py).         *)
(***************************************************************************)
\* One issue string: f"{prefix}: {what}", prefix "Server {index} ({name})" or
\* "Settings".
Issue(prefix, what) == [prefix |-> prefix, what |-> what]

WsPrefixes == {<<"ws", ":", "/", "/">>, <<"wss", ":", "/", "/">>}

\* opt.startswith(prefixes) on an Optional[str]: None has no such attribute.
attr_startswith(opt, prefixes) ==
    IF opt = None
    THEN [raised |-> "AttributeError", value |-> FALSE]
    ELSE [raised |-> "none", value |-> startswith(opt[1], prefixes)]

\* The outcome of a validation: the exception raised, if any, and the issues.
Issues(seq) == [raised |-> "none", issues |-> seq]
Raised(e) == [raised |-> e, issues |-> <<>>]

\* A server validation that tests the url's scheme without testing for a url first.
validate_server_unguarded(server, index) ==
    LET prefix == <<"Server", index, server.name>>
        transport_issues ==
            IF server.transport = "stdio"
            THEN IF ~truthy(server.command)
                 THEN Issues(<<Issue(prefix, "stdio transport requires command")>>)
                 ELSE Issues(<<>>)
            ELSE IF server.transport = "websocket"
            THEN LET r == attr_startswith(server.url, WsPrefixes)
                 IN  IF r.raised # "none" THEN Raised(r.raised)
                     ELSE IF ~r.value
                     THEN Issues(<<Issue(prefix, "websocket url must start with ws:// or wss://")>>)
                     ELSE Issues(<<>>)
            ELSE Issues(<<Issue(prefix, "unsupported transport")>>)
        name_issues ==
            IF server.name = <<>> \/ strip(server.name) = <<>>
            THEN <<Issue(prefix, "name cannot be empty")>>
            ELSE <<>>
    IN  IF transport_issues.raised # "none"
        THEN transport_issues
        ELSE Issues(transport_issues.issues \o name_issues)

\* A server validation that asks nothing of a stdio server.
validate_server_any_stdio(server, index) ==
    LET prefix == <<"Server", index, server.name>>
        transport_issues ==
            IF server.transport = "stdio"
            THEN Issues(<<>>)
            ELSE IF server.transport = "websocket"
            THEN IF ~truthy(server.url)
                 THEN Issues(<<Issue(prefix, "websocket transport requires url")>>)
                 ELSE LET r == attr_startswith(server.url, WsPrefixes)
                      IN  IF r.raised # "none" THEN Raised(r.raised)
                          ELSE IF ~r.value
                          THEN Issues(<<Issue(prefix, "websocket url must start with ws:// or wss://")>>)
                          ELSE Issues(<<>>)
            ELSE Issues(<<Issue(prefix, "unsupported transport")>>)
        name_issues ==
            IF server.name = <<>> \/ strip(server.name) = <<>>
            THEN <<Issue(prefix, "name cannot be empty")>>
            ELSE <<>>
    IN  IF transport_issues.raised # "none"
        THEN transport_issues
        ELSE Issues(transport_issues.issues \o name_issues)

\* _validate_server_config(server, index).  The elif of the stdio branch tests
\* the command for emptiness a second time (it is a list by its type).
_validate_server_config(server, index) ==
    LET prefix == <<"Server", index, server.name>>
        transport_issues ==
            IF server.transport = "stdio"
            THEN IF ~truthy(server.command)
                 THEN Issues(<<Issue(prefix, "stdio transport requires command")>>)
                 ELSE IF server.command[1] = <<>>
                 THEN Issues(<<Issue(prefix, "command must be a non-empty list")>>)
                 ELSE Issues(<<>>)
            ELSE IF server.transport = "websocket"
            THEN IF ~truthy(server.url)
                 THEN Issues(<<Issue(prefix, "websocket transport requires url")>>)
                 ELSE LET r == attr_startswith(server.url, WsPrefixes)
                      IN  IF r.raised # "none" THEN Raised(r.raised)
                          ELSE IF ~r.value
                          THEN Issues(<<Issue(prefix, "websocket url must start with ws:// or wss://")>>)
                          ELSE Issues(<<>>)
            ELSE Issues(<<Issue(prefix, "unsupported transport")>>)
        name_issues ==
            IF server.name = <<>> \/ strip(server.name) = <<>>
            THEN <<Issue(prefix, "name cannot be empty")>>
            ELSE <<>>
    IN  IF transport_issues.raised # "none"
        THEN transport_issues
        ELSE Issues(transport_issues.issues \o name_issues)

\* issues.extend(server_issues) for the servers 1..n, in order; the first
\* exception ends the loop.
RECURSIVE ServerIssues(_, _)
ServerIssues(servers, n) ==
    IF n = 0
    THEN Issues(<<>>)
    ELSE LET before == ServerIssues(servers, n - 1)
             this == _validate_server_config(servers[n], n - 1)
         IN  IF before.raised # "none" THEN before
             ELSE IF this.raised # "none" THEN this
             ELSE Issues(before.issues \o this.issues)

\* The checks of the settings, in the order of the code.
SettingsIssues(settings) ==
    (IF settings.timeout <= 0
     THEN <<Issue(<<"Settings">>, "timeout must be positive")>> ELSE <<>>)
    \o (IF settings.max_retries < 0
        THEN <<Issue(<<"Settings">>, "max_retries cannot be negative")>> ELSE <<>>)
    \o (IF settings.context_limit <= 0
        THEN <<Issue(<<"Settings">>, "context_limit must be positive")>> ELSE <<>>)

\* A validation that accepts a timeout of zero.
validate_accepts_zero_timeout(config) ==
    LET servers == ServerIssues(config.servers, Len(config.servers))
    IN  IF servers.raised # "none"
        THEN servers
        ELSE Issues(servers.issues
                    \o SelectSeq(SettingsIssues(config.settings),
                                 LAMBDA i : i.what # "timeout must be positive"
                                            \/ config.settings.timeout < 0))

\* validate_configuration(config).
validate_configuration(config) ==
    LET servers == ServerIssues(config.servers, Len(config.servers))
    IN  IF servers.raised # "none"
        THEN servers
        ELSE Issues(servers.issues \o SettingsIssues(config.settings))

(***************************************************************************)
(* SpecRoundTrip: a caller saves Configurations and loads them again; the  *)
(* only files on disk are the ones save_configuration wrote.               *)
(***************************************************************************)
\* A Configuration with every settings field off its default, a disabled
\* websocket server with an environment, and a stdio server after it.
TwoServerConfig ==
    [settings |-> [enabled |-> FALSE, timeout |-> 5, max_retries |-> 0,
                   context_limit |-> 200, cache_ttl |-> 60, log_level |-> "ERROR"],
     fields_set |-> SettingsFields,
     servers |-> <<[name |-> <<"db">>, transport |-> "websocket", command |-> None,
                    url |-> Some(<<"wss", ":", "/", "/", "db", ":", "9000">>),
                    env |-> Some([TOKEN |-> "t"]), enabled |-> FALSE],
                   [name |-> <<"s", "1">>, transport |-> "stdio",
                    command |-> Some(<<"echo", "hi">>), url |-> None,
                    env |-> None, enabled |-> TRUE]>>]

\* The default Configuration, the one of the test, the one above, and one
\* parsed from a file that sets two settings fields only.
RoundTripConfigs ==
    {MCPConfiguration, SavedConfig, TwoServerConfig, _load_config_file(DocA).config}

InitRoundTrip ==
    /\ git_root \in BOOLEAN
    /\ paths = [global |-> TRUE, project |-> git_root, local |-> TRUE, env |-> FALSE]
    /\ fs = [f \in LayerNames |-> Absent]
    /\ home_dir = FALSE
    /\ clock = 1
    /\ config_cache = None
    /\ cache_timestamp = 0
    /\ manager = MCPManager
    /\ last = NoOp

NextRoundTrip ==
    \/ \E config \in RoundTripConfigs, scope \in Scopes : save_configuration(config, scope)
    \/ \E force_reload \in BOOLEAN : load_configuration(force_reload, FALSE)
    \/ \E f \in LayerNames : DeleteFile(f)

SpecRoundTrip == InitRoundTrip /\ [][NextRoundTrip]_vars

(***************************************************************************)
(* The pure functions, each applied once to an input drawn at the start.   *)
(***************************************************************************)
Input(args) == [NoOp EXCEPT !.op = "input", !.args = args]

\* The Configurations the valid documents parse to, the default and the saved ones.
MergeConfigs ==
    {_load_config_file(d).config : d \in {d \in LoadDocs : _load_config_file(d).ok}}
    \cup RoundTripConfigs

CallMerge ==
    /\ last.op = "input"
    /\ last' = [last EXCEPT !.op = "merge",
                            !.value = Some(_merge_configurations(last.args[1],
                                                                 last.args[2]))]
    /\ UNCHANGED others

InitMerge ==
    /\ Quiet
    /\ \E base \in MergeConfigs, override \in MergeConfigs : last = Input(<<base, override>>)

SpecMerge == InitMerge /\ [][CallMerge]_vars

\* The server definitions validation is tried on: every transport case with
\* every case of command, url and name.
ValidateTransports == {"stdio", "websocket", "http"}
ValidateCommands == {None, Some(<<>>), Some(<<"echo", "hi">>)}
ValidateUrls ==
    {None, Some(<<>>),
     Some(<<"ws", ":", "/", "/", "h">>),
     Some(<<"wss", ":", "/", "/", "h", ":", "9000">>),
     Some(<<"http", ":", "/", "/", "bad">>),
     Some(<<"ws", ":", "/", "h">>)}
ValidateNames == {<<>>, <<" ">>, <<"x">>, <<" ", "x", " ">>}
ValidateServers ==
    {[name |-> n, transport |-> t, command |-> c, url |-> u, env |-> None, enabled |-> TRUE] :
        n \in ValidateNames, t \in ValidateTransports,
        c \in ValidateCommands, u \in ValidateUrls}
ValidateSettings ==
    {[MCPSettings EXCEPT !.timeout = t, !.max_retries = r, !.context_limit = c] :
        t \in {-1, 0, DefaultTimeout}, r \in {-1, 0, DefaultMaxRetries},
        c \in {-1, 0, DefaultContextLimit}}
\* Two-server lists are built from these.
PairServers ==
    {sv \in ValidateServers :
        /\ sv.name \in {<<>>, <<"x">>}
        /\ sv.command \in {None, Some(<<"echo", "hi">>)}
        /\ sv.url \in {None, Some(<<"http", ":", "/", "/", "bad">>)}}

\* No server or one server with any settings, and two servers with the defaults.
ValidateConfigs ==
    {[settings |-> st, fields_set |-> SettingsFields, servers |-> <<>>] :
        st \in ValidateSettings}
    \cup {[settings |-> st, fields_set |-> SettingsFields, servers |-> <<sv>>] :
            st \in ValidateSettings, sv \in ValidateServers}
    \cup {[settings |-> MCPSettings, fields_set |-> {}, servers |-> <<a, b>>] :
            a \in PairServers, b \in PairServers}

CallValidate ==
    /\ last.op = "input"
    /\ LET r == validate_configuration(last.args[1])
       IN  last' = [last EXCEPT !.op = "validate", !.raised = r.raised,
                                !.value = Some(r.issues)]
    /\ UNCHANGED others

InitValidate ==
    /\ Quiet
    /\ \E config \in ValidateConfigs : last = Input(<<config>>)

SpecValidate == InitValidate /\ [][CallValidate]_vars

\* The longest server spec tried, in characters and atoms.
MaxSpecLen == 7
\* "n" is a name, a word of a command, a part of a url or an unknown transport.
SpecAlphabet == {"n", ":", " ", "stdio", "websocket"}
ServerSpecs == UNION {[1..n -> SpecAlphabet] : n \in 0..MaxSpecLen}

CallParse ==
    /\ last.op = "input"
    /\ LET r == parse_mcp_server_spec(last.args[1])
       IN  last' = [last EXCEPT !.op = "parse", !.raised = r.raised,
                                !.value = Some(r.value)]
    /\ UNCHANGED others

InitParse ==
    /\ Quiet
    /\ \E server_spec \in ServerSpecs : last = Input(<<server_spec>>)

SpecParse == InitParse /\ [][CallParse]_vars

(***************************************************************************)
(* MCPManager.connect_servers and disconnect_all (manager.py).             *)
(***************************************************************************)
\* The sessions one manager creates in its lifetime, at most.
MaxSessions == 1

\* What can go wrong with the session of a server: session.connect() raises,
\* or list_tools()/list_resources() raises after the connection.
FailureKinds == {"connect_fails", "list_fails"}

\* d[k] = v for a dict.
Put(d, k, v) == [x \in DOMAIN d \cup {k} |-> IF x = k THEN v ELSE d[x]]

\* A loop body that does not look at config.enabled.
connect_one_ignores_enabled(mgr, config, fails) ==
    IF /\ ~(config.transport = "stdio" /\ truthy(config.command))
       /\ ~(config.transport = "websocket" /\ truthy(config.url))
    THEN mgr
    ELSE LET happens == IF fails # None /\ fails[1].name = config.name
                        THEN fails[1].kind ELSE "ok"
             session == [config |-> config,
                         connected |-> happens # "connect_fails",
                         listed |-> happens = "ok",
                         disconnect_called |-> FALSE]
             made == Append(mgr.made, session)
         IN  IF happens = "connect_fails"
             THEN [mgr EXCEPT !.made = made]
             ELSE [mgr EXCEPT
                     !.made = made,
                     !.sessions = Put(@, config.name, Len(made)),
                     !.session_order =
                         IF config.name \in DOMAIN mgr.sessions
                         THEN @ ELSE Append(@, config.name),
                     !.available_tools =
                         IF session.listed THEN Append(@, Len(made)) ELSE @,
                     !.available_resources =
                         IF session.listed THEN Append(@, Len(made)) ELSE @]

\* A loop body that gives up the session when its capabilities cannot be listed.
connect_one_drops_unlisted(mgr, config, fails) ==
    IF ~config.enabled
    THEN mgr
    ELSE IF /\ ~(config.transport = "stdio" /\ truthy(config.command))
            /\ ~(config.transport = "websocket" /\ truthy(config.url))
    THEN mgr
    ELSE LET happens == IF fails # None /\ fails[1].name = config.name
                        THEN fails[1].kind ELSE "ok"
             session == [config |-> config,
                         connected |-> happens # "connect_fails",
                         listed |-> happens = "ok",
                         disconnect_called |-> FALSE]
             made == Append(mgr.made, session)
         IN  IF happens # "ok"
             THEN [mgr EXCEPT !.made = made]
             ELSE [mgr EXCEPT
                     !.made = made,
                     !.sessions = Put(@, config.name, Len(made)),
                     !.session_order =
                         IF config.name \in DOMAIN mgr.sessions
                         THEN @ ELSE Append(@, config.name),
                     !.available_tools = Append(@, Len(made)),
                     !.available_resources = Append(@, Len(made))]

\* The body of the loop of connect_servers for one config.  fails names the
\* server whose session fails, and how; every other session succeeds and
\* lists one tool and one resource, written as the session's place in made.
ConnectOne(mgr, config, fails) ==
    IF ~config.enabled
    THEN mgr
    ELSE IF /\ ~(config.transport = "stdio" /\ truthy(config.command))
            /\ ~(config.transport = "websocket" /\ truthy(config.url))
    THEN mgr
    ELSE LET happens == IF fails # None /\ fails[1].name = config.name
                        THEN fails[1].kind ELSE "ok"
             session == [config |-> config,
                         connected |-> happens # "connect_fails",
                         listed |-> happens = "ok",
                         disconnect_called |-> FALSE]
             made == Append(mgr.made, session)
         IN  IF happens = "connect_fails"
             THEN [mgr EXCEPT !.made = made]
             ELSE [mgr EXCEPT
                     !.made = made,
                     !.sessions = Put(@, config.name, Len(made)),
                     !.session_order =
                         IF config.name \in DOMAIN mgr.sessions
                         THEN @ ELSE Append(@, config.name),
                     !.available_tools =
                         IF session.listed THEN Append(@, Len(made)) ELSE @,
                     !.available_resources =
                         IF session.listed THEN Append(@, Len(made)) ELSE @]

\* The loop of connect_servers over configs[1..n].
RECURSIVE ConnectLoop(_, _, _, _)
ConnectLoop(mgr, configs, n, fails) ==
    IF n = 0
    THEN mgr
    ELSE ConnectOne(ConnectLoop(mgr, configs, n - 1, fails), configs[n], fails)

\* connect_servers(configs) on a manager: the manager afterwards and the
\* value returned.
Connect(mgr, configs, fails) ==
    IF ~mgr.available
    THEN [manager |-> mgr, returned |-> FALSE]
    ELSE LET after == ConnectLoop(mgr, configs, Len(configs), fails)
             connected == DOMAIN after.sessions # {}
         IN  [manager |-> [after EXCEPT !.connected = connected],
              returned |-> connected]

connect_servers(configs, fails) ==
    LET r == Connect(manager, configs, fails)
    IN  /\ manager' = r.manager
        /\ last' = [NoOp EXCEPT !.op = "connect", !.args = <<configs, fails>>,
                                !.value = Some(r.returned)]
        /\ UNCHANGED <<git_root, paths, fs, home_dir, clock, config_cache,
                       cache_timestamp>>

\* The places in made of the sessions the sessions dict holds.
Tracked(mgr) == {mgr.sessions[name] : name \in DOMAIN mgr.sessions}

\* session.disconnect() is called on every session of the sessions dict.
DisconnectSessions(mgr) ==
    [i \in DOMAIN mgr.made |->
        IF i \in Tracked(mgr)
        THEN [mgr.made[i] EXCEPT !.disconnect_called = TRUE]
        ELSE mgr.made[i]]

\* A disconnect_all that leaves available_tools and available_resources.
disconnect_keeps_capabilities(mgr) ==
    IF ~mgr.available
    THEN mgr
    ELSE [mgr EXCEPT !.made = DisconnectSessions(mgr),
                     !.sessions = <<>>,
                     !.session_order = <<>>,
                     !.connected = FALSE]

\* disconnect_all on a manager.  An exception of session.disconnect() is
\* swallowed (lines 189-193), so the manager afterwards is the same whether
\* or not a disconnect raises.
Disconnect(mgr) ==
    IF ~mgr.available
    THEN mgr
    ELSE [mgr EXCEPT !.made = DisconnectSessions(mgr),
                     !.sessions = <<>>,
                     !.session_order = <<>>,
                     !.available_tools = <<>>,
                     !.available_resources = <<>>,
                     !.connected = FALSE]

\* raises names the server whose session.disconnect() raises, if any.
disconnect_all(raises) ==
    /\ manager' = Disconnect(manager)
    /\ last' = [NoOp EXCEPT !.op = "disconnect", !.args = <<raises>>]
    /\ UNCHANGED <<git_root, paths, fs, home_dir, clock, config_cache,
                   cache_timestamp>>

(***************************************************************************)
(* MCPClient.setup_from_args (client.py).                                  *)
(***************************************************************************)
\* config_manager.load_configuration() on the resolver setup_from_args has
\* just constructed: nothing is cached, every existing file is read, and the
\* stat of the newest file raises when no file exists.
FreshLoad ==
    LET config == MergeConfigFiles(fs, Len(config_files))
        newest == getmtime(fs, _get_newest_config_file(fs))
    IN  IF newest.ok
        THEN Return(config)
        ELSE [raised |-> "OSError", value |-> config]

\* What the try block leaves: the server list, the issues reported to the
\* user, and the exception the except clause caught, if any.
Loaded(servers, issues, caught) ==
    [servers |-> servers, issues |-> issues, caught |-> caught]

\* A try block that uses the servers of a Configuration without issues only.
config_step_requires_valid(mcp_config) ==
    IF mcp_config # None
    THEN IF mcp_config[1].exists
         THEN LET file_config == _load_config_file(mcp_config[1].doc)
              IN  IF file_config.ok
                  THEN Loaded(file_config.config.servers, <<>>, "none")
                  ELSE Loaded(<<>>, <<>>, "ValueError")
         ELSE Loaded(<<>>, <<>>, "none")
    ELSE LET full_config == FreshLoad
         IN  IF full_config.raised # "none"
             THEN Loaded(<<>>, <<>>, full_config.raised)
             ELSE LET issues == validate_configuration(full_config.value)
                  IN  IF issues.raised # "none"
                      THEN Loaded(<<>>, <<>>, issues.raised)
                      ELSE IF issues.issues # <<>>
                      THEN Loaded(<<>>, issues.issues, "none")
                      ELSE Loaded(full_config.value.servers, issues.issues, "none")

\* The try block of setup_from_args: the file named by --mcp-config, when
\* given, else the resolved Configuration, validated.
ConfigStep(mcp_config) ==
    IF mcp_config # None
    THEN IF mcp_config[1].exists
         THEN LET file_config == _load_config_file(mcp_config[1].doc)
              IN  IF file_config.ok
                  THEN Loaded(file_config.config.servers, <<>>, "none")
                  ELSE Loaded(<<>>, <<>>, "ValueError")
         ELSE Loaded(<<>>, <<>>, "none")
    ELSE LET full_config == FreshLoad
         IN  IF full_config.raised # "none"
             THEN Loaded(<<>>, <<>>, full_config.raised)
             ELSE LET issues == validate_configuration(full_config.value)
                  IN  IF issues.raised # "none"
                      THEN Loaded(<<>>, <<>>, issues.raised)
                      ELSE Loaded(full_config.value.servers, issues.issues, "none")

\* cli_configs: the definitions parsed from args.mcp_servers[1..n], the
\* specs that give no definition left out.
RECURSIVE CliConfigs(_, _)
CliConfigs(mcp_servers, n) ==
    IF n = 0
    THEN <<>>
    ELSE LET config == parse_mcp_server_spec(mcp_servers[n]).value
         IN  CliConfigs(mcp_servers, n - 1) \o (IF config # None THEN config ELSE <<>>)

\* An override that puts the CLI server where the first entry of its name was.
cli_replaces_in_place(server_configs, cli_config) ==
    IF \E i \in DOMAIN server_configs : server_configs[i].name = cli_config.name
    THEN LET first == CHOOSE i \in DOMAIN server_configs :
                          /\ server_configs[i].name = cli_config.name
                          /\ \A j \in 1..(i - 1) : server_configs[j].name # cli_config.name
         IN  SelectSeq(SubSeq(server_configs, 1, first - 1),
                       LAMBDA c : c.name # cli_config.name)
             \o <<cli_config>>
             \o SelectSeq(SubSeq(server_configs, first + 1, Len(server_configs)),
                          LAMBDA c : c.name # cli_config.name)
    ELSE Append(server_configs, cli_config)

\* One round of the override loop: the entries of that name removed, the
\* CLI server appended.
override_by_name(server_configs, cli_config) ==
    Append(SelectSeq(server_configs, LAMBDA c : c.name # cli_config.name), cli_config)

\* The override loop over cli_configs[1..n].
RECURSIVE ApplyCli(_, _, _)
ApplyCli(server_configs, cli_configs, n) ==
    IF n = 0
    THEN server_configs
    ELSE override_by_name(ApplyCli(server_configs, cli_configs, n - 1), cli_configs[n])

\* The definition of the built-in server, on the default port.
localhost_config ==
    Construct([name |-> <<"aider-tools">>, transport |-> "websocket",
               url |-> Some(<<"ws", ":", "/", "/", "localhost", ":", "8000", "/", "mcp">>)]).value[1]

\* What the thread start_server has done when setup_from_args, one second
\* after starting it, goes on to connect: the server is serving ("started"),
\* start_aider_mcp_server has raised or returned ("failed": no uvicorn, the
\* port is taken), or it is still starting ("late").  Nothing but the sleep
\* orders the thread and the connection, so each of the three can happen.
ThreadOutcomes == {"started", "failed", "late"}

\* The connect() of the built-in definition reaches no server: none is serving.
Refused == Some([name |-> <<"aider-tools">>, kind |-> "connect_fails"])

\* setup_from_args(args): args.mcp_config is None or the file at that path,
\* args.mcp_servers the list of server specs, aider_mcp_server is "off"
\* (not enabled), "unavailable" (enabled, is_server_available() false) or
\* the outcome of the server thread (enabled and available); when the thread
\* has no server serving, the session that fails is the one of the built-in
\* definition.  The value keeps whether "Started built-in aider MCP server"
\* was reported and whether the server was serving when connect_servers ran.
setup_from_args(mcp_config, mcp_servers, aider_mcp_server, fails) ==
    LET call == [NoOp EXCEPT !.op = "setup",
                             !.args = <<mcp_config, mcp_servers, aider_mcp_server>>]
        result(returned, step, handed) ==
            [call EXCEPT !.value = Some([returned |-> returned, issues |-> step.issues,
                                         caught |-> step.caught,
                                         base |-> step.servers, handed |-> handed,
                                         reported_started |->
                                             /\ manager.available
                                             /\ aider_mcp_server \in ThreadOutcomes,
                                         serving |->
                                             /\ manager.available
                                             /\ aider_mcp_server = "started"])]
    IN  /\ aider_mcp_server \in {"failed", "late"} => fails = Refused
        /\ IF ~manager.available
           THEN /\ last' = result(FALSE, Loaded(<<>>, <<>>, "none"), None)
                /\ UNCHANGED others
           ELSE LET step == ConfigStep(mcp_config)
                    cli_configs == CliConfigs(mcp_servers, Len(mcp_servers))
                    with_cli == ApplyCli(step.servers, cli_configs, Len(cli_configs))
                    server_configs ==
                        IF aider_mcp_server \in ThreadOutcomes
                        THEN Append(with_cli, localhost_config)
                        ELSE with_cli
                IN  IF server_configs # <<>>
                    THEN LET r == Connect(manager, server_configs, fails)
                         IN  /\ Len(r.manager.made) <= MaxSessions
                             /\ manager' = r.manager
                             /\ last' = result(r.returned, step, Some(server_configs))
                             /\ UNCHANGED <<git_root, paths, fs, home_dir, clock,
                                            config_cache, cache_timestamp>>
                    ELSE /\ last' = result(FALSE, step, None)
                         /\ UNCHANGED others

\* A file with issues: a timeout of zero, a stdio server without command,
\* and a server of an unsupported transport and without name.
DocIssues ==
    [json |-> TRUE,
     data |-> [settings |-> [timeout |-> 0],
               servers |-> <<[name |-> <<"s", "1">>, transport |-> "stdio"],
                             [name |-> <<" ">>, transport |-> "http"]>>]]

\* s1:stdio:ls -l, new:websocket:ws://h, db:stdio:psql, and a spec without colon.
SpecS1 == <<"s", "1", ":", "stdio", ":", "ls", " ", "-l">>
SpecNew == <<"new", ":", "websocket", ":", "ws", ":", "/", "/", "h">>
SpecDb == <<"db", ":", "stdio", ":", "psql">>
SpecBad == <<"bad">>

ClientFiles == {Absent, File(1, DocC), File(1, DocIssues)}
ClientMcpConfigs == {None, Some(Absent), Some(File(1, DocS1))}
ClientMcpServers ==
    {<<>>, <<SpecS1>>, <<SpecBad, SpecDb>>, <<SpecNew, SpecS1>>, <<SpecDb, SpecNew, SpecDb>>}
ClientFails ==
    {None} \cup {Some([name |-> <<"s", "1">>, kind |-> k]) : k \in FailureKinds}
\* No disconnect() raises, or the one of the session of s1 does.
DisconnectRaises == {None, Some(<<"s", "1">>)}
\* The two servers of DocC, the first disabled, and the disabled one alone.
ConnectLists ==
    {_load_config_file(DocC).config.servers,
     SubSeq(_load_config_file(DocC).config.servers, 1, 1)}

(***************************************************************************)
(* SpecClient: a client is set up from the command line, over a global     *)
(* source file that is absent, holds two servers or holds issues; the      *)
(* manager is also connected directly and disconnected.                    *)
(***************************************************************************)
InitClient ==
    /\ git_root = FALSE
    /\ paths = [global |-> TRUE, project |-> FALSE, local |-> TRUE, env |-> FALSE]
    /\ \E file \in ClientFiles : fs = [f \in LayerNames |-> IF f = "global" THEN file ELSE Absent]
    /\ home_dir = TRUE
    /\ clock = 1
    /\ config_cache = None
    /\ cache_timestamp = 0
    /\ \E available \in BOOLEAN : manager = [MCPManager EXCEPT !.available = available]
    /\ last = NoOp

NextClient ==
    \/ \E mcp_config \in ClientMcpConfigs, mcp_servers \in ClientMcpServers,
          aider_mcp_server \in {"off", "unavailable", "started"}, fails \in ClientFails :
          setup_from_args(mcp_config, mcp_servers, aider_mcp_server, fails)
    \/ \E configs \in ConnectLists, fails \in ClientFails :
          /\ connect_servers(configs, fails)
          /\ Len(manager'.made) <= MaxSessions
    \/ disconnect_all(None)

SpecClient == InitClient /\ [][NextClient]_vars

(***************************************************************************)
(* SpecBuiltIn: a client is set up with the built-in server enabled, over  *)
(* the same global source files.                                           *)
(***************************************************************************)
BuiltInMcpServers == {<<>>, <<SpecS1>>, <<SpecBad, SpecDb>>}
BuiltInFails == {None, Refused}

NextBuiltIn ==
    \/ \E mcp_config \in ClientMcpConfigs, mcp_servers \in BuiltInMcpServers,
          aider_mcp_server \in {"off", "unavailable"} \cup ThreadOutcomes,
          fails \in BuiltInFails :
          setup_from_args(mcp_config, mcp_servers, aider_mcp_server, fails)
    \/ disconnect_all(None)

SpecBuiltIn == InitClient /\ [][NextBuiltIn]_vars

(***************************************************************************)
(* MCPManager.get_context_for_model (manager.py).                          *)
(***************************************************************************)
\* str.lower() on the characters the queries and server names are made of.
lower(s) ==
    [i \in DOMAIN s |->
        CASE s[i] = "DB" -> "db"
          [] s[i] = "S" -> "s"
          [] OTHER -> s[i]]

\* `sub in s` for two strings.
contains(s, sub) ==
    \E i \in 0..(Len(s) - Len(sub)) : SubSeq(s, i + 1, i + Len(sub)) = sub

\* The resource a session lists: one per session, named after its server and
\* without description; its uri and its content are the session's place in made.
ResourceOf(mgr, i) ==
    [uri |-> i, name |-> mgr.made[i].config.name, description |-> <<>>]

_is_resource_relevant(resource, query) ==
    IF query = <<>>
    THEN TRUE
    ELSE LET query_lower == lower(query)
         IN  \/ contains(lower(resource.name), query_lower)
             \/ contains(lower(resource.description), query_lower)

\* The dict returned when the manager is not connected, `{}`, and the keys of
\* the dict built otherwise.
EmptyContext ==
    [keys |-> {}, mcp_resources |-> <<>>, mcp_tools |-> <<>>, mcp_context |-> ""]
ContextKeys == {"mcp_resources", "mcp_tools", "mcp_context"}

\* The loop over self.sessions.items() (lines 121-140), over the first n keys:
\* the resources collected and the sessions that were called.  fails names the
\* server whose list_resources() or read_resource() raises.
RECURSIVE CollectResources(_, _, _, _)
CollectResources(mgr, n, query, fails) ==
    IF n = 0
    THEN [resources |-> <<>>, called |-> {}]
    ELSE LET sofar == CollectResources(mgr, n - 1, query, fails)
             session_name == mgr.session_order[n]
             session == mgr.sessions[session_name]
             happens == IF fails # None /\ fails[1].name = session_name
                        THEN fails[1].kind ELSE "ok"
             resource == ResourceOf(mgr, session)
         IN  IF /\ happens = "ok"
                /\ _is_resource_relevant(resource, query)
             THEN [resources |->
                       Append(sofar.resources,
                              [uri |-> resource.uri, name |-> resource.name,
                               content |-> session, server |-> session_name]),
                   called |-> sofar.called \cup {session}]
             ELSE [sofar EXCEPT !.called = @ \cup {session}]

\* A context that is built whether or not the manager is connected.
context_ignores_connected(mgr, query, fails) ==
    LET collected == CollectResources(mgr, Len(mgr.session_order), query, fails)
    IN  [context |->
             [keys |-> ContextKeys,
              mcp_resources |-> collected.resources,
              mcp_tools |->
                  [t \in DOMAIN mgr.available_tools |->
                      [name |-> mgr.available_tools[t], description |-> "",
                       server |-> "unknown"]],
              mcp_context |-> ""],
         called |-> collected.called]

\* get_context_for_model(query) on a manager: the dict returned and the
\* sessions that were called.
Context(mgr, query, fails) ==
    IF ~mgr.connected \/ ~mgr.available
    THEN [context |-> EmptyContext, called |-> {}]
    ELSE LET collected == CollectResources(mgr, Len(mgr.session_order), query, fails)
         IN  [context |->
                  [keys |-> ContextKeys,
                   mcp_resources |-> collected.resources,
                   mcp_tools |->
                       [t \in DOMAIN mgr.available_tools |->
                           [name |-> mgr.available_tools[t], description |-> "",
                            server |-> "unknown"]],
                   mcp_context |-> ""],
              called |-> collected.called]

\* MCPClient.get_context(query), which is MCPManager.get_context_for_model(query).
get_context_for_model(query, fails) ==
    LET r == Context(manager, query, fails)
    IN  /\ last' = [NoOp EXCEPT !.op = "context", !.args = <<query, fails>>,
                                !.value = Some(r.context), !.reads = r.called]
        /\ UNCHANGED others

(***************************************************************************)
(* SpecSessions: one manager is connected, asked for context and           *)
(* disconnected, any number of times.                                      *)
(***************************************************************************)
\* The sessions one manager creates in its lifetime in SpecSessions, at most.
MaxMade == 3

ConfigS1 == Construct(RawS1).value[1]
ConfigDb == Construct(RawDb).value[1]
\* A server named aider-tools, as a source file can define it.
ConfigTools ==
    Construct([name |-> <<"aider-tools">>, transport |-> "stdio",
               command |-> Some(<<"aider-mcp">>)]).value[1]
\* A definition whose transport configuration is invalid.
ConfigHttp == Construct([name |-> <<"web">>, transport |-> "http"]).value[1]

SessionLists ==
    {<<ConfigHttp, ConfigS1, ConfigTools>>, <<ConfigTools, localhost_config>>,
     <<ConfigDb, ConfigS1>>, <<ConfigDb>>}
SessionFails ==
    {None} \cup {Some([name |-> n, kind |-> k]) :
                    n \in {<<"s", "1">>, <<"aider-tools">>}, k \in FailureKinds}
Queries == {<<>>, <<"DB">>, <<"S", "1">>}
ContextFails ==
    {None} \cup {Some([name |-> <<"s", "1">>, kind |-> k]) :
                    k \in {"list_fails", "read_fails"}}

InitSessions ==
    /\ git_root = FALSE
    /\ paths = [global |-> TRUE, project |-> FALSE, local |-> TRUE, env |-> FALSE]
    /\ fs = [f \in LayerNames |-> Absent]
    /\ home_dir = FALSE
    /\ clock = 1
    /\ config_cache = None
    /\ cache_timestamp = 0
    /\ \E available \in BOOLEAN : manager = [MCPManager EXCEPT !.available = available]
    /\ last = NoOp

NextSessions ==
    \/ \E configs \in SessionLists, fails \in SessionFails :
          /\ connect_servers(configs, fails)
          /\ Len(manager'.made) <= MaxMade
    \/ \E raises \in DisconnectRaises : disconnect_all(raises)
    \/ \E query \in Queries, fails \in ContextFails : get_context_for_model(query, fails)

SpecSessions == InitSessions /\ [][NextSessions]_vars

(***************************************************************************)
(* The file:// and directory:// resources of the built-in server           *)
(* (servers/aider_tools.py), over a small tree that does not change while  *)
(* a request runs.  A node is named by its real path, the sequence of its  *)
(* names from the root; a path given to a resource is a string, "/" and    *)
(* ".." being characters of their own.                                     *)
(***************************************************************************)
\* The longest path string a request carries.
MaxPathLen == 4

\* /w is the server's working directory; /w/out is a symbolic link to /etc.
Cwd == <<"w">>
FileTree ==
    (<<>> :> [kind |-> "dir", content |-> <<>>, target |-> <<>>]) @@
    (<<"w">> :> [kind |-> "dir", content |-> <<>>, target |-> <<>>]) @@
    (<<"w", "a">> :> [kind |-> "file", content |-> <<"A">>, target |-> <<>>]) @@
    (<<"w", "d">> :> [kind |-> "dir", content |-> <<>>, target |-> <<>>]) @@
    (<<"w", "d", "a">> :> [kind |-> "file", content |-> <<"D", "A">>, target |-> <<>>]) @@
    (<<"w", "out">> :> [kind |-> "link", content |-> <<>>, target |-> <<"etc">>]) @@
    (<<"etc">> :> [kind |-> "dir", content |-> <<>>, target |-> <<>>]) @@
    (<<"etc", "p">> :> [kind |-> "file", content |-> <<"P">>, target |-> <<>>])

\* The names of the tree in sorted order.
SortedNames == <<"a", "d", "etc", "out", "p", "w">>
PathAlphabet == {"/", "..", "a", "d", "out", "etc", "p", "w"}
PathStrings == UNION {[1..n -> PathAlphabet] : n \in 0..MaxPathLen}

\* Path(path): the parts between the slashes, empty parts dropped, and whether
\* the path starts at the root.
PurePath(path) ==
    [absolute |-> path # <<>> /\ path[1] = "/",
     parts |-> SelectSeq(split(path, "/", Len(path)), LAMBDA part : part # <<>>)]

\* No such file or directory.
Missing == <<"?">>

\* The node a part of a path leads to from a directory, symbolic links
\* followed; the names of the tree are one character long.
Child(node, part) ==
    IF node = Missing \/ FileTree[node].kind # "dir"
    THEN Missing
    ELSE IF part = <<"..">>
    THEN SubSeq(node, 1, Len(node) - 1)
    ELSE IF Len(part) # 1 \/ Append(node, part[1]) \notin DOMAIN FileTree
    THEN Missing
    ELSE LET child == Append(node, part[1])
         IN  IF FileTree[child].kind = "link" THEN FileTree[child].target ELSE child

\* The node the first n parts of a path lead to, as the system follows them.
RECURSIVE Walk(_, _)
Walk(p, n) ==
    IF n = 0
    THEN IF p.absolute THEN <<>> ELSE Cwd
    ELSE Child(Walk(p, n - 1), p.parts[n])

\* Path.exists(), Path.is_dir() and Path.is_file(); Path.resolve() of a path
\* that exists is the real path of the node it leads to.
path_exists(p) == Walk(p, Len(p.parts)) # Missing
is_dir(p) == path_exists(p) /\ FileTree[Walk(p, Len(p.parts))].kind = "dir"
is_file(p) == path_exists(p) /\ FileTree[Walk(p, Len(p.parts))].kind = "file"
resolve(p) == Walk(p, Len(p.parts))

\* a.relative_to(b) raises no ValueError: b's parts begin a's parts.
relative_to(a, b) == Len(b) <= Len(a) /\ SubSeq(a, 1, Len(b)) = b

\* A security check on the path as written, made absolute but not resolved.
inside_cwd_as_written(p) ==
    p.absolute => relative_to(p.parts, [i \in DOMAIN Cwd |-> <<Cwd[i]>>])

\* The security check: file_path.resolve().relative_to(cwd.resolve()).
inside_cwd(p) == relative_to(resolve(p), Cwd)

Failed(e) == [raised |-> "RuntimeError", cause |-> e, value |-> None]
Served(x) == [raised |-> "none", cause |-> "none", value |-> Some(x)]

get_file_content(path) ==
    LET file_path == PurePath(path)
    IN  IF ~path_exists(file_path)
        THEN Failed("FileNotFoundError")
        ELSE IF ~inside_cwd(file_path)
        THEN Failed("PermissionError")
        ELSE IF is_dir(file_path)
        THEN Failed("IsADirectoryError")
        ELSE Served(FileTree[resolve(file_path)].content)

\* The lines of a listing: the items of the directory in sorted order, a file
\* with its size and a directory with a slash; the times are left out.
ListingOf(dir_path) ==
    LET names == SelectSeq(SortedNames,
                           LAMBDA name : Append(resolve(dir_path), name) \in DOMAIN FileTree)
        item(name) == [dir_path EXCEPT !.parts = Append(@, <<name>>)]
    IN  SelectSeq([k \in DOMAIN names |->
                      IF is_file(item(names[k]))
                      THEN [name |-> names[k], kind |-> "file",
                            size |-> Len(FileTree[resolve(item(names[k]))].content)]
                      ELSE IF is_dir(item(names[k]))
                      THEN [name |-> names[k], kind |-> "dir", size |-> 0]
                      ELSE [name |-> names[k], kind |-> "other", size |-> 0]],
                  LAMBDA line : line.kind # "other")

get_directory_listing(path) ==
    LET dir_path == PurePath(path)
    IN  IF ~path_exists(dir_path) \/ ~is_dir(dir_path)
        THEN Failed("NotADirectoryError")
        ELSE IF ~inside_cwd(dir_path)
        THEN Failed("PermissionError")
        ELSE Served(IF ListingOf(dir_path) = <<>>
                       THEN <<"Directory is empty">>
                       ELSE ListingOf(dir_path))

ReadFile ==
    /\ last.op = "input"
    /\ LET r == get_file_content(last.args[1])
       IN  last' = [last EXCEPT !.op = "file", !.raised = r.raised, !.cause = r.cause,
                                !.value = r.value]
    /\ UNCHANGED others

ListDirectory ==
    /\ last.op = "input"
    /\ LET r == get_directory_listing(last.args[1])
       IN  last' = [last EXCEPT !.op = "directory", !.raised = r.raised,
                                !.cause = r.cause, !.value = r.value]
    /\ UNCHANGED others

InitFiles ==
    /\ Quiet
    /\ \E path \in PathStrings : last = Input(<<path>>)

NextFiles == ReadFile \/ ListDirectory

SpecFiles == InitFiles /\ [][NextFiles]_vars

(***************************************************************************)
(* What the claims speak of.                                               *)
(***************************************************************************)
\* The last operation was a load_configuration that returned a Configuration.
LoadReturned == last.op = "load" /\ last.raised = "none"
Returned == last.value[1]

\* The source file of layer f exists and is valid / exists and is malformed.
ValidSource(f) == exists(fs, f) /\ _load_config_file(fs[f].doc).ok
Malformed(f) == exists(fs, f) /\ ~_load_config_file(fs[f].doc).ok

Rank(f) == CHOOSE i \in DOMAIN config_files : config_files[i] = f
Highest(S) == CHOOSE f \in S : \A g \in S : Rank(g) <= Rank(f)

\* The JSON object of a valid source file, and its two optional parts.
Data(f) == fs[f].doc.data
GivenSettings(f) == IF "settings" \in DOMAIN Data(f) THEN Data(f).settings ELSE <<>>
GivenServers(f) == IF "servers" \in DOMAIN Data(f) THEN Data(f).servers ELSE <<>>

\* The valid source files that set settings field k explicitly, and the value
\* such a file gives it (a log level is case-insensitive, kept in upper case).
Setters(k) == {f \in LayerNames : ValidSource(f) /\ k \in DOMAIN GivenSettings(f)}
GivenValue(f, k) ==
    IF k = "log_level" THEN upper(GivenSettings(f)[k]) ELSE GivenSettings(f)[k]

ClaimedDefaults ==
    [enabled |-> TRUE, timeout |-> 30, max_retries |-> 3, context_limit |-> 10000,
     cache_ttl |-> 300, log_level |-> "INFO"]

\* C1: whenever load_configuration returns from a load of the files, every
\* settings field of the returned Configuration has the value given by the
\* highest-ranked existing valid source file that sets it explicitly, and the
\* default when no such file sets it.
C1_SettingsPrecedence ==
    LoadReturned =>
        \A k \in SettingsFields :
            Returned.settings[k] =
                IF Setters(k) = {} THEN ClaimedDefaults[k]
                ELSE GivenValue(Highest(Setters(k)), k)

\* A load over a global file that sets timeout and log_level and a local file
\* that sets timeout (to its default value) and enabled.
C1_Witness ==
    /\ LoadReturned /\ last.real
    /\ exists(fs, "global") /\ fs["global"].doc = DocA
    /\ exists(fs, "local") /\ fs["local"].doc = DocB
    /\ ~exists(fs, "project") /\ ~exists(fs, "env")
    /\ Returned.settings.timeout = 30
    /\ Returned.settings.log_level = "DEBUG"
    /\ Returned.settings.enabled = FALSE
    /\ Returned.settings.max_retries = 3

\* The valid source files that define at least one server.
ServerSources == {f \in LayerNames : ValidSource(f) /\ GivenServers(f) # <<>>}

\* A loaded server is the entry as written, enabled when the entry omits it.
LoadedFrom(server, raw) ==
    /\ server.name = raw.name
    /\ server.transport = raw.transport
    /\ server.command = IF "command" \in DOMAIN raw THEN raw.command ELSE None
    /\ server.url = IF "url" \in DOMAIN raw THEN raw.url ELSE None
    /\ server.env = IF "env" \in DOMAIN raw THEN raw.env ELSE None
    /\ server.enabled = IF "enabled" \in DOMAIN raw THEN raw.enabled ELSE TRUE

\* C2: the server list a load returns is, in order, the server list of the
\* highest-ranked existing valid source file that defines at least one server,
\* each entry enabled unless it says otherwise, and is empty when no source
\* defines servers.
C2_ServerListOfHighestSource ==
    LoadReturned =>
        IF ServerSources = {}
        THEN Returned.servers = <<>>
        ELSE LET given == GivenServers(Highest(ServerSources))
             IN  /\ Len(Returned.servers) = Len(given)
                 /\ \A i \in DOMAIN given : LoadedFrom(Returned.servers[i], given[i])

\* The scenario: only the local file exists and holds the one stdio server s1.
C2_Witness ==
    /\ LoadReturned /\ last.real
    /\ \A f \in LayerNames : exists(fs, f) <=> f = "local"
    /\ fs["local"].doc = DocS1
    /\ Len(Returned.servers) = 1
    /\ Returned.servers[1].name = <<"s", "1">>
    /\ Returned.servers[1].transport = "stdio"
    /\ Returned.servers[1].enabled = TRUE

\* C3: a load over a malformed source file does not raise and returns the
\* Configuration a load returns from the same files without that file.
C3_MalformedFileIsSkipped ==
    (last.op = "load" /\ last.real) =>
        \A f \in LayerNames :
            Malformed(f) =>
                /\ last.raised = "none"
                /\ last.value =
                      Some(MergeConfigFiles([fs EXCEPT ![f] = Absent], Len(config_files)))

\* A malformed local file between a valid global and a valid env file.
C3_Witness ==
    /\ LoadReturned /\ last.real
    /\ ValidSource("global") /\ fs["global"].doc = DocA
    /\ Malformed("local") /\ fs["local"].doc = DocBadLevel
    /\ ValidSource("env") /\ fs["env"].doc = DocC
    /\ Returned.settings.timeout = 60
    /\ Len(Returned.servers) = 2

\* C4: load_configuration never raises, whatever source files exist.
C4_LoadNeverRaises == last.op = "load" => last.raised = "none"

\* The source files that exist, and the newest modification time among them.
ExistingFiles == {f \in LayerNames : exists(fs, f)}
NewestMtime ==
    CHOOSE t \in {fs[f].mtime : f \in ExistingFiles} :
        \A f \in ExistingFiles : fs[f].mtime <= t

\* The Configuration a load from the files as they are now returns.
FreshConfiguration == MergeConfigFiles(fs, Len(config_files))

\* C5: when a source file that exists is modified, its modification time
\* advancing, the next load_configuration(force_reload=False) returns the
\* Configuration of the files as they now are.
C5_CacheFreshness ==
    [][(/\ last.op = "modify"
        /\ last.old_mtime < fs[last.layer].mtime
        /\ last'.op = "load" /\ ~last'.force /\ last'.raised = "none")
       => last'.value = Some(FreshConfiguration)]_vars

\* C6: load_configuration returns the cached Configuration, reading no file and
\* leaving the cache as it is, exactly when force_reload is false, a snapshot
\* is cached and the newest existing source file is no newer than the recorded
\* timestamp; in every other case it reads every existing source file.
C6_CacheHitIffValid ==
    [][last'.op = "load" =>
         IF /\ ~last'.force
            /\ config_cache # None
            /\ ~last'.stat_error
            /\ ExistingFiles # {}
            /\ NewestMtime <= cache_timestamp
         THEN /\ ~last'.real
              /\ last'.reads = {}
              /\ last'.value = config_cache
              /\ UNCHANGED <<config_cache, cache_timestamp>>
         ELSE /\ last'.real
              /\ last'.reads = ExistingFiles
              /\ last'.raised = "none" => last'.value = Some(FreshConfiguration)]_vars

\* A load answered from the cache.
C6_Witness ==
    /\ LoadReturned /\ ~last.force /\ last.had_cache
    /\ ~last.real /\ last.reads = {}
    /\ last.value = config_cache
    /\ ExistingFiles # {}

\* C7: with a snapshot cached, load_configuration(force_reload=False) goes
\* through a reload whenever no source file exists or the stat of the source
\* files fails during the validity check.
C7_NoSourceMeansReload ==
    [][(/\ last'.op = "load" /\ ~last'.force
        /\ config_cache # None
        /\ (ExistingFiles = {} \/ last'.stat_error))
       => last'.real]_vars

\* A load without force on a resolver that holds a snapshot, after every
\* source file was deleted.
C7_Witness ==
    /\ last.op = "load" /\ ~last.force /\ last.had_cache
    /\ ExistingFiles = {}
    /\ last.real

\* C8: after a load from the files that returns, the cache holds the returned
\* Configuration and the cache timestamp is the newest modification time over
\* all existing source files, the malformed ones included.
C8_CacheTimestampIsNewestMtime ==
    (LoadReturned /\ last.real) =>
        /\ config_cache = last.value
        /\ cache_timestamp = NewestMtime

\* A load where the newest existing file is a malformed one.
C8_Witness ==
    /\ LoadReturned /\ last.real
    /\ Malformed("local")
    /\ ValidSource("global")
    /\ fs["global"].mtime < fs["local"].mtime
    /\ cache_timestamp = fs["local"].mtime

\* C9: a successful save_configuration leaves no snapshot cached, and the
\* load_configuration(force_reload=False) that follows it reads the written
\* file and returns the Configuration of the files as they now are.
C9_SaveInvalidatesCache ==
    [][/\ (last'.op = "save" /\ last'.raised = "none") => config_cache' = None
       /\ (/\ last.op = "save" /\ last.raised = "none"
           /\ last'.op = "load" /\ ~last'.force)
          => /\ last'.real
             /\ last.layer \in last'.reads
             /\ last'.value = Some(FreshConfiguration)]_vars

\* A save whose file is stamped no newer than the cache timestamp of the load
\* before it.
C9_Witness ==
    /\ last.op = "save" /\ last.raised = "none"
    /\ cache_timestamp > 0
    /\ fs[last.layer].mtime <= cache_timestamp
    /\ config_cache = None

\* C10: save_configuration with scope project on a resolver without a project
\* root, or with a scope outside global, project and local, raises the
\* invalid-scope error and changes neither the files, the directories, the
\* cached snapshot nor its timestamp.
C10_InvalidScopeWritesNothing ==
    [][(/\ last'.op = "save"
        /\ \/ last'.scope \notin {"global", "project", "local"}
           \/ last'.scope = "project" /\ ~git_root)
       => /\ last'.raised = "ValueError"
          /\ UNCHANGED <<fs, home_dir, config_cache, cache_timestamp>>]_vars

\* A refused project-scope save on a resolver that holds a snapshot.
C10_Witness ==
    /\ last.op = "save" /\ last.scope = "project" /\ ~git_root
    /\ last.raised = "ValueError"
    /\ config_cache # None
    /\ ExistingFiles # {}

(***************************************************************************)
(* The serialization round trip, the merge, validation and the parser.     *)
(***************************************************************************)
\* C11 - Round trip: when save_configuration(c, scope) has written a file and
\* load_configuration follows with that file as the only existing source, the
\* load returns a Configuration whose settings and server list (every field
\* of every server, in order) equal those of c.
C11_RoundTrip ==
    [][(/\ last.op = "save"
        /\ last.raised = "none"
        /\ last'.op = "load"
        /\ ExistingFiles = {last.layer})
       => (/\ last'.raised = "none"
           /\ last'.real
           /\ last'.value[1].settings = last.args[1].settings
           /\ last'.value[1].servers = last.args[1].servers)]_vars

\* A load that read back the two-server Configuration, the disabled server
\* with its environment first, from the only file on disk.
C11_Witness ==
    /\ LoadReturned
    /\ last.real
    /\ \E f \in LayerNames :
          /\ ExistingFiles = {f}
          /\ fs[f].doc = model_dump(TwoServerConfig)
    /\ Returned.servers = TwoServerConfig.servers
    /\ Returned.settings = TwoServerConfig.settings

MergeBase == last.args[1]
MergeOverride == last.args[2]
Merged == last.value[1]

\* C12 - In the result of _merge_configurations every settings field set in
\* the override has the override's value and every other field has the
\* base's value.  (The operator builds a new value; base and override are
\* values of the model and cannot change.)
C12_FieldLevelOverride ==
    last.op = "merge" =>
        \A k \in SettingsFields :
            Merged.settings[k] = IF k \in MergeOverride.fields_set
                                 THEN MergeOverride.settings[k]
                                 ELSE MergeBase.settings[k]

\* An override that sets timeout and log_level only, over a base whose
\* enabled is off: the result has the override's timeout and the base's enabled.
C12_Witness ==
    /\ last.op = "merge"
    /\ MergeOverride.fields_set = {"timeout", "log_level"}
    /\ MergeBase.settings.enabled = FALSE
    /\ MergeBase.settings.timeout # MergeOverride.settings.timeout
    /\ Merged.settings.enabled = FALSE
    /\ Merged.settings.timeout = 60
    /\ Merged.settings.context_limit = MergeBase.settings.context_limit
    /\ Merged.settings.context_limit # DefaultContextLimit

\* C13 - When the override has servers, the server list of the result of
\* _merge_configurations is the override's list: the same entries in the
\* same order and none of the base's.
C13_OverrideServersReplace ==
    (last.op = "merge" /\ MergeOverride.servers # <<>>)
        => Merged.servers = MergeOverride.servers

\* A base with two servers under an override with one server of another name.
C13_Witness ==
    /\ last.op = "merge"
    /\ Len(MergeBase.servers) = 2
    /\ Len(MergeOverride.servers) = 1
    /\ \A i \in DOMAIN MergeBase.servers :
          MergeBase.servers[i].name # MergeOverride.servers[1].name
    /\ Merged.servers = MergeOverride.servers

Validated == last.args[1]
ReportedIssues == last.value[1]

\* C14 - validate_configuration raises for no Configuration: its outcome is
\* a list of issues.
C14_ValidateNeverRaises == last.op = "validate" => last.raised = "none"

\* A websocket server without url and with a name of white space only: two
\* issues and no exception.
C14_Witness ==
    /\ last.op = "validate"
    /\ last.raised = "none"
    /\ Len(Validated.servers) = 1
    /\ Validated.servers[1].transport = "websocket"
    /\ Validated.servers[1].url = None
    /\ Validated.servers[1].name = <<" ">>
    /\ Len(ReportedIssues) = 2

\* The rules of the specification, stated on a server definition.
HasWsScheme(url) ==
    /\ Len(url) >= 4
    /\ url[1] \in {"ws", "wss"}
    /\ url[2] = ":" /\ url[3] = "/" /\ url[4] = "/"
TransportRuleViolated(sv) ==
    \/ sv.transport = "stdio" /\ (sv.command = None \/ Len(sv.command[1]) = 0)
    \/ sv.transport = "websocket" /\ (sv.url = None \/ ~HasWsScheme(sv.url[1]))
    \/ sv.transport \notin {"stdio", "websocket"}
NameRuleViolated(sv) == \A i \in DOMAIN sv.name : sv.name[i] = " "

TransportMessages ==
    {"stdio transport requires command", "command must be a non-empty list",
     "websocket transport requires url",
     "websocket url must start with ws:// or wss://", "unsupported transport"}
ServerPrefix(i) == <<"Server", i - 1, Validated.servers[i].name>>
IssuesOf(prefix, whats) ==
    {j \in DOMAIN ReportedIssues :
        ReportedIssues[j].prefix = prefix /\ ReportedIssues[j].what \in whats}
Count(violated) == IF violated THEN 1 ELSE 0

\* C15 - validate_configuration returns one issue per violated rule and no
\* other: per server one for the transport rule and one for the name rule,
\* and one each for timeout <= 0, max_retries < 0 and context_limit <= 0.
C15_OneIssuePerViolatedRule ==
    last.op = "validate" =>
        /\ \A i \in DOMAIN Validated.servers :
              /\ Cardinality(IssuesOf(ServerPrefix(i), TransportMessages))
                    = Count(TransportRuleViolated(Validated.servers[i]))
              /\ Cardinality(IssuesOf(ServerPrefix(i), {"name cannot be empty"}))
                    = Count(NameRuleViolated(Validated.servers[i]))
        /\ Cardinality(IssuesOf(<<"Settings">>, {"timeout must be positive"}))
              = Count(Validated.settings.timeout <= 0)
        /\ Cardinality(IssuesOf(<<"Settings">>, {"max_retries cannot be negative"}))
              = Count(Validated.settings.max_retries < 0)
        /\ Cardinality(IssuesOf(<<"Settings">>, {"context_limit must be positive"}))
              = Count(Validated.settings.context_limit <= 0)
        /\ \A j \in DOMAIN ReportedIssues :
              \/ j \in IssuesOf(<<"Settings">>,
                                {"timeout must be positive",
                                 "max_retries cannot be negative",
                                 "context_limit must be positive"})
              \/ \E i \in DOMAIN Validated.servers :
                    j \in IssuesOf(ServerPrefix(i),
                                   TransportMessages \cup {"name cannot be empty"})

\* The scenario: a websocket server named x with url http://bad and default
\* settings yields the one issue about the url's scheme.
C15_Witness ==
    /\ last.op = "validate"
    /\ Validated.settings = MCPSettings
    /\ Len(Validated.servers) = 1
    /\ Validated.servers[1].name = <<"x">>
    /\ Validated.servers[1].transport = "websocket"
    /\ Validated.servers[1].url = Some(<<"http", ":", "/", "/", "bad">>)
    /\ Len(ReportedIssues) = 1
    /\ ReportedIssues[1].what = "websocket url must start with ws:// or wss://"

BothSet(sv) == sv.command # None /\ sv.url # None
NeitherSet(sv) == sv.command = None /\ sv.url = None
\* The field the transport selects: command for stdio, url for websocket.
SelectedField(sv) ==
    IF sv.transport = "stdio" THEN sv.command
    ELSE IF sv.transport = "websocket" THEN sv.url
    ELSE None
Reported(i) ==
    \E j \in DOMAIN ReportedIssues : ReportedIssues[j].prefix = ServerPrefix(i)

\* C16 as stated - every server definition with both command and url set, or
\* with neither set, is reported by validate_configuration as an issue.
C16_BothOrNeitherIsReported ==
    last.op = "validate" =>
        /\ last.raised = "none"
        /\ \A i \in DOMAIN Validated.servers :
              (BothSet(Validated.servers[i]) \/ NeitherSet(Validated.servers[i]))
                  => Reported(i)

\* C16 - validate_configuration never raises; it reports every definition
\* that lacks a non-empty value in the field its transport selects (so every
\* definition with neither field set), and it ignores the field not selected:
\* a definition with both set, the selected one valid and a name, is accepted
\* without issue.
C16_SelectedFieldIsRequired ==
    last.op = "validate" =>
        /\ last.raised = "none"
        /\ \A i \in DOMAIN Validated.servers :
              LET sv == Validated.servers[i]
              IN  /\ ~truthy(SelectedField(sv)) =>
                        IssuesOf(ServerPrefix(i), TransportMessages) # {}
                  /\ NeitherSet(sv) => Reported(i)
                  /\ (/\ BothSet(sv)
                      /\ ~TransportRuleViolated(sv)
                      /\ ~NameRuleViolated(sv)) => ~Reported(i)

\* A stdio server with command and url both set, accepted, next to a
\* websocket server with neither, reported.
C16_Witness ==
    /\ last.op = "validate"
    /\ Len(Validated.servers) = 2
    /\ Validated.servers[1].transport = "stdio"
    /\ BothSet(Validated.servers[1])
    /\ ~Reported(1)
    /\ Validated.servers[2].transport = "websocket"
    /\ NeitherSet(Validated.servers[2])
    /\ Reported(2)

ParsedSpec == last.args[1]
Parsed == last.value[1]
Colons(s) == {i \in DOMAIN s : s[i] = ":"}
FirstColon(s) == CHOOSE i \in Colons(s) : \A j \in Colons(s) : i <= j
SecondColon(s) ==
    CHOOSE i \in Colons(s) \ {FirstColon(s)} :
        \A j \in Colons(s) \ {FirstColon(s)} : i <= j
SpecName(s) == SubSeq(s, 1, FirstColon(s) - 1)
SpecTransport(s) ==
    IF Cardinality(Colons(s)) >= 2
    THEN SubSeq(s, FirstColon(s) + 1, SecondColon(s) - 1)
    ELSE SubSeq(s, FirstColon(s) + 1, Len(s))
SpecPayload(s) == SubSeq(s, SecondColon(s) + 1, Len(s))
\* The words of a payload: its maximal runs of characters other than space.
WordStarts(p) == {i \in DOMAIN p : p[i] # " " /\ (i = 1 \/ p[i - 1] = " ")}
WordEnd(p, i) ==
    CHOOSE e \in i..Len(p) :
        /\ \A k \in i..e : p[k] # " "
        /\ e = Len(p) \/ p[e + 1] = " "
IsWordsOf(words, p) ==
    /\ Len(words) = Cardinality(WordStarts(p))
    /\ \A i \in WordStarts(p) :
          words[Cardinality({j \in WordStarts(p) : j <= i})] = SubSeq(p, i, WordEnd(p, i))

\* C20 - parse_mcp_server_spec never raises; for name:stdio:payload it
\* returns the stdio definition of that name whose command is the payload's
\* words; for name:websocket:payload the websocket definition whose url is
\* the payload verbatim, further colons included; for another transport or
\* a spec without colon it returns no definition.
C20_ParseServerSpec ==
    last.op = "parse" =>
        /\ last.raised = "none"
        /\ Colons(ParsedSpec) = {} => Parsed = None
        /\ Colons(ParsedSpec) # {} =>
              LET transport == SpecTransport(ParsedSpec)
              IN  /\ transport \notin {<<"stdio">>, <<"websocket">>} => Parsed = None
                  /\ (transport = <<"stdio">> /\ Cardinality(Colons(ParsedSpec)) >= 2) =>
                        /\ Parsed # None
                        /\ Parsed[1].name = SpecName(ParsedSpec)
                        /\ Parsed[1].transport = "stdio"
                        /\ Parsed[1].command # None
                        /\ IsWordsOf(Parsed[1].command[1], SpecPayload(ParsedSpec))
                        /\ Parsed[1].url = None
                        /\ Parsed[1].enabled
                  /\ (transport = <<"websocket">> /\ Cardinality(Colons(ParsedSpec)) >= 2) =>
                        /\ Parsed # None
                        /\ Parsed[1].name = SpecName(ParsedSpec)
                        /\ Parsed[1].transport = "websocket"
                        /\ Parsed[1].url = Some(SpecPayload(ParsedSpec))
                        /\ Parsed[1].command = None
                        /\ Parsed[1].enabled

\* n:websocket:n:n, a url that holds a colon, parsed to that url.
C20_Witness ==
    /\ last.op = "parse"
    /\ ParsedSpec = <<"n", ":", "websocket", ":", "n", ":", "n">>
    /\ Parsed # None
    /\ Parsed[1].url = Some(<<"n", ":", "n">>)

(***************************************************************************)
(* The client: validation in use, disabled servers, CLI servers.           *)
(***************************************************************************)
SetupArgs == last.args
SetupValue == last.value[1]

\* C17 - Validation is advisory: when setup_from_args resolves the
\* Configuration from the source files, it reports the issues of that
\* Configuration, takes its server list as it is, however many issues there
\* are, hands that list to connect_servers when the command line adds
\* nothing, and changes neither the files nor the resolver's cache.
C17_ValidationIsAdvisory ==
    [][(/\ last'.op = "setup"
        /\ manager.available
        /\ last'.args[1] = None
        /\ ExistingFiles # {})
       => LET config == FreshConfiguration
              v == last'.value[1]
          IN  /\ v.caught = "none"
              /\ v.issues = validate_configuration(config).issues
              /\ v.base = config.servers
              /\ (/\ last'.args[2] = <<>>
                  /\ last'.args[3] # "started"
                  /\ config.servers # <<>>) => v.handed = Some(config.servers)
              /\ UNCHANGED <<fs, config_cache, cache_timestamp>>]_vars

\* A setup over the file with four issues: all four are reported and its
\* two servers are handed on as they are.
C17_Witness ==
    /\ last.op = "setup"
    /\ SetupArgs[1] = None
    /\ SetupArgs[2] = <<>>
    /\ fs["global"].doc = DocIssues
    /\ Len(SetupValue.issues) = 4
    /\ SetupValue.handed = Some(_load_config_file(DocIssues).config.servers)

Made == manager.made

\* C18 - No session is created for a disabled definition: every session the
\* manager made, every session stored in sessions and every session that
\* contributed a tool or a resource belongs to an enabled definition.
C18_DisabledNeverConnected ==
    /\ \A i \in DOMAIN Made : Made[i].config.enabled
    /\ \A n \in DOMAIN manager.sessions :
          /\ manager.sessions[n] \in DOMAIN Made
          /\ Made[manager.sessions[n]].config.enabled
          /\ Made[manager.sessions[n]].config.name = n
          /\ Made[manager.sessions[n]].connected
    /\ \A j \in DOMAIN manager.available_tools :
          Made[manager.available_tools[j]].config.enabled
    /\ \A j \in DOMAIN manager.available_resources :
          Made[manager.available_resources[j]].config.enabled

\* A setup that handed a disabled server and an enabled one to
\* connect_servers: one session was made, for the enabled one.
C18_Witness ==
    /\ last.op = "setup"
    /\ SetupValue.handed # None
    /\ \E i \in DOMAIN SetupValue.handed[1] : ~SetupValue.handed[1][i].enabled
    /\ SetupValue.returned
    /\ Len(Made) = 1
    /\ manager.connected
    /\ Len(manager.available_tools) = 1

\* The definitions the command line gave, and, per name, the last of them.
CliGiven == CliConfigs(SetupArgs[2], Len(SetupArgs[2]))
CliNames == {CliGiven[i].name : i \in DOMAIN CliGiven}
LastOfName(name) ==
    CliGiven[CHOOSE i \in DOMAIN CliGiven :
                /\ CliGiven[i].name = name
                /\ \A j \in (i + 1)..Len(CliGiven) : CliGiven[j].name # name]
LastIndexes ==
    {i \in DOMAIN CliGiven : \A j \in (i + 1)..Len(CliGiven) : CliGiven[j].name # CliGiven[i].name}
CliLast ==
    [k \in 1..Cardinality(LastIndexes) |->
        CliGiven[CHOOSE i \in LastIndexes : Cardinality({j \in LastIndexes : j <= i}) = k]]
BuiltIn == IF SetupArgs[3] = "started" THEN <<localhost_config>> ELSE <<>>
BaseNames == {SetupValue.base[i].name : i \in DOMAIN SetupValue.base}
Combined ==
    IF SetupValue.handed = None
    THEN <<>>
    ELSE SubSeq(SetupValue.handed[1], 1, Len(SetupValue.handed[1]) - Len(BuiltIn))
NewIndexes == {i \in LastIndexes : CliGiven[i].name \notin BaseNames}

LogLevels == {"DEBUG", "INFO", "WARNING", "ERROR", "CRITICAL"}
\* The level a spelling names, whatever its letter case; "" when it names none.
LevelNamed(v) ==
    CASE v \in {"debug", "Debug", "DEBUG"} -> "DEBUG"
      [] v \in {"info", "Info", "INFO"} -> "INFO"
      [] v \in {"warning", "Warning", "WARNING"} -> "WARNING"
      [] v \in {"error", "Error", "ERROR"} -> "ERROR"
      [] v \in {"critical", "Critical", "CRITICAL"} -> "CRITICAL"
      [] OTHER -> ""
\* The existing JSON source files that give a log level.
LevelGivers ==
    {f \in LayerNames :
        exists(fs, f) /\ fs[f].doc.json /\ "log_level" \in DOMAIN GivenSettings(f)}

\* C21 - The log level of every Configuration load_configuration returns is
\* one of the five levels in upper case; a source file that gives a level
\* outside them is malformed, and the level of the highest-ranked valid file
\* that gives one is returned in upper case whatever its letter case.
C21_LogLevelNormalized ==
    LoadReturned =>
        /\ Returned.settings.log_level \in LogLevels
        /\ \A f \in LevelGivers :
              LevelNamed(GivenSettings(f).log_level) = "" => Malformed(f)
        /\ LET valid == {f \in LevelGivers : ValidSource(f)}
           IN  Returned.settings.log_level =
                   IF valid = {} THEN "INFO"
                   ELSE LevelNamed(GivenSettings(Highest(valid)).log_level)

\* A load over a global file with the level "verbose" and a local file with
\* the level "Warning": WARNING is returned.
C21_Witness ==
    /\ LoadReturned /\ last.real
    /\ Malformed("global") /\ fs["global"].doc = DocBadLevel
    /\ ValidSource("local") /\ fs["local"].doc = DocD
    /\ Returned.settings.log_level = "WARNING"

\* The valid source files that have the key servers with an empty list.
EmptyListSources ==
    {f \in LayerNames :
        ValidSource(f) /\ "servers" \in DOMAIN Data(f) /\ Data(f).servers = <<>>}

\* C28 - A source file whose server list is present but empty clears
\* nothing: the servers of the lower-ranked files are returned, and the
\* loaded list is empty only if no valid source file has a server.
C28_EmptyListKeepsBase ==
    LoadReturned =>
        /\ Returned.servers = <<>> <=>
              \A f \in LayerNames : ValidSource(f) => GivenServers(f) = <<>>
        /\ \A f \in EmptyListSources :
              (\E g \in ServerSources : Rank(g) < Rank(f)) => Returned.servers # <<>>

\* A local file with "servers": [] over a global file with two servers: the
\* two servers are returned.
C28_Witness ==
    /\ LoadReturned /\ last.real
    /\ ValidSource("global") /\ fs["global"].doc = DocC
    /\ "local" \in EmptyListSources
    /\ ~exists(fs, "env")
    /\ Len(Returned.servers) = 2
    /\ Returned.servers[1].name = <<"db">>

(***************************************************************************)
(* Changes to the set of source files, and changes during a load.          *)
(***************************************************************************)
\* C23 - When the cached snapshot reflects the files, and then a source file
\* is deleted, or a new one is created with a modification time not newer
\* than the cached timestamp, the next load_configuration(force_reload=False)
\* does what a forced reload would do: it returns the Configuration of the
\* files as they now are (and raises when none is left).
C23_FileSetChangeIsReflected ==
    [][(/\ last.op \in {"delete", "create"}
        /\ last.fresh
        /\ last.op = "create" => fs[last.layer].mtime <= cache_timestamp
        /\ last'.op = "load" /\ ~last'.force)
       => IF ExistingFiles = {}
          THEN last'.raised # "none"
          ELSE last'.raised = "none" /\ last'.value = Some(FreshConfiguration)]_vars

\* C24 - When another program modifies a source file, its modification time
\* advancing, after load_configuration read it and before the load records
\* the cache timestamp, the next load_configuration(force_reload=False)
\* returns the Configuration of the files as they now are.
C24_ModifiedDuringLoadIsReflected ==
    [][(/\ last.op = "load" /\ last.real /\ last.raised = "none"
        /\ last.layer # ""
        /\ last.old_mtime < fs[last.layer].mtime
        /\ last'.op = "load" /\ ~last'.force)
       => last'.value = Some(FreshConfiguration)]_vars

(***************************************************************************)
(* The manager's sessions.                                                 *)
(***************************************************************************)
\* C22 - When the manager is not connected, get_context_for_model returns
\* the empty dict for every query, calls no session, raises nothing and
\* leaves the manager as it is; the manager is not connected before any
\* connect_servers, after a connect_servers that leaves no session, and
\* after disconnect_all.
C22_NotConnectedGivesEmptyContext ==
    [][(/\ last'.op = "context"
        /\ \/ ~manager.connected
           \/ last.op \in {"init", "disconnect"}
           \/ last.op = "connect" /\ manager.sessions = <<>>)
       => /\ last'.value = Some(EmptyContext)
          /\ last'.reads = {}
          /\ last'.raised = "none"
          /\ manager' = manager]_vars

\* A manager that connected a session and disconnected it is asked for the
\* context of a query that names the server.
C22_Witness ==
    /\ last.op = "context" /\ last.args[1] = <<"S", "1">>
    /\ manager.available /\ ~manager.connected
    /\ manager.made # <<>> /\ manager.made[1].disconnect_called
    /\ last.value = Some(EmptyContext)

\* C25 - Every session whose connect() succeeded and on which the manager
\* has not called disconnect() is held by the sessions dict, also when two
\* enabled definitions of one list have the same name and when
\* connect_servers is called more than once.
C25_ConnectedSessionsStayTracked ==
    \A i \in DOMAIN manager.made :
        (manager.made[i].connected /\ ~manager.made[i].disconnect_called)
            => i \in Tracked(manager)

\* `transport == "stdio" and command` or `transport == "websocket" and url`.
ValidTransport(c) ==
    \/ c.transport = "stdio" /\ c.command # None /\ c.command[1] # <<>>
    \/ c.transport = "websocket" /\ c.url # None /\ c.url[1] # <<>>
\* The definitions of a list that connect_servers is to attempt.
Attempted(configs) == SelectSeq(configs, LAMBDA c : c.enabled /\ ValidTransport(c))
\* The names of the attempted definitions whose connect() does not raise.
Succeeded(configs, fails) ==
    {Attempted(configs)[k].name : k \in
        {k \in DOMAIN Attempted(configs) :
            ~(/\ fails # None
              /\ fails[1].name = Attempted(configs)[k].name
              /\ fails[1].kind = "connect_fails")}}

\* C26 - connect_servers makes a session for every enabled definition with a
\* valid transport configuration, in the order of the list, whatever fails
\* for the others; the names sessions holds afterwards are those it held
\* before and those of the enabled definitions whose connect() succeeded
\* (a listing failure included), so on a manager without sessions exactly the
\* latter; the value returned and is_connected() are true iff sessions is
\* not empty.
C26_ConnectIsolatesFailures ==
    [][(last'.op = "connect" /\ manager.available) =>
          LET configs == last'.args[1]
              fails == last'.args[2]
          IN  /\ Len(manager'.made) = Len(manager.made) + Len(Attempted(configs))
              /\ \A k \in DOMAIN Attempted(configs) :
                    manager'.made[Len(manager.made) + k].config = Attempted(configs)[k]
              /\ DOMAIN manager'.sessions =
                     DOMAIN manager.sessions \cup Succeeded(configs, fails)
              /\ manager.sessions = <<>> =>
                     DOMAIN manager'.sessions = Succeeded(configs, fails)
              /\ last'.value = Some(DOMAIN manager'.sessions # {})
              /\ manager'.connected = (DOMAIN manager'.sessions # {})]_vars

\* A list of an invalid definition, s1 whose listing fails and aider-tools:
\* both sessions are held, only the second lists a tool.
C26_Witness ==
    /\ last.op = "connect"
    /\ last.args = <<(<<ConfigHttp, ConfigS1, ConfigTools>>),
                     Some([name |-> <<"s", "1">>, kind |-> "list_fails"])>>
    /\ DOMAIN manager.sessions = {<<"s", "1">>, <<"aider-tools">>}
    /\ manager.available_tools = <<2>>
    /\ last.value = Some(TRUE)

\* C27 - disconnect_all calls disconnect() on every session of the sessions
\* dict, whether or not a disconnect() raises, and leaves sessions,
\* available_tools and available_resources empty and is_connected() false;
\* a connect_servers that follows exposes the tools and resources of the
\* sessions it connects only.
C27_DisconnectClearsEverything ==
    [][/\ last'.op = "disconnect" =>
             /\ \A i \in Tracked(manager) : manager'.made[i].disconnect_called
             /\ manager'.sessions = <<>>
             /\ manager'.available_tools = <<>>
             /\ manager'.available_resources = <<>>
             /\ ~manager'.connected
       /\ (last.op = "disconnect" /\ last'.op = "connect") =>
             \A k \in DOMAIN manager'.available_tools :
                 /\ manager'.available_tools[k] > Len(manager.made)
                 /\ manager'.available_resources[k] = manager'.available_tools[k]
                 /\ manager'.made[manager'.available_tools[k]].connected]_vars

\* Two sessions were held and listed a tool each, the disconnect() of s1
\* raised, and nothing is left.
C27_Witness ==
    /\ last.op = "disconnect" /\ last.args = <<Some(<<"s", "1">>)>>
    /\ Len(manager.made) = 2
    /\ \A i \in 1..2 : manager.made[i].listed /\ manager.made[i].disconnect_called
    /\ manager.made[1].config.name = <<"s", "1">>
    /\ manager.sessions = <<>> /\ manager.available_tools = <<>>

(***************************************************************************)
(* The built-in server.                                                    *)
(***************************************************************************)
\* C29 - When setup_from_args has added the built-in aider-tools definition
\* to the server list and reported the built-in server as started, the
\* server thread has started the server and it was serving when the client
\* connected to ws://localhost:<port>/mcp.
C29_BuiltInServesBeforeConnect ==
    (last.op = "setup" /\ last.value[1].reported_started)
        => /\ last.value[1].serving
           /\ last.value[1].handed # None
           /\ last.value[1].handed[1][Len(last.value[1].handed[1])] = localhost_config

\* The node a requested path resolves to.
Requested == resolve(PurePath(last.args[1]))

\* C30 - A request to the file:// or directory:// resource returns a
\* content or a listing only when the path resolves into the server's working
\* directory, whether it is written with "..", from the root or through a
\* symbolic link; every other request ends in an error.  What is returned is
\* the content of the file the path resolves to.
C30_NothingOutsideCwd ==
    last.op \in {"file", "directory"} =>
        /\ (Requested = Missing \/ ~relative_to(Requested, Cwd)) =>
               last.raised # "none" /\ last.value = None
        /\ last.raised = "none" =>
               /\ Requested # Missing /\ relative_to(Requested, Cwd)
               /\ last.op = "file" => last.value = Some(FileTree[Requested].content)
               /\ last.op = "directory" => FileTree[Requested].kind = "dir"

\* The file out/p, reached through the link /w/out to /etc, is refused.
C30_Witness ==
    /\ last.op = "file" /\ last.args[1] = <<"out", "/", "p">>
    /\ Requested = <<"etc", "p">>
    /\ last.raised = "RuntimeError" /\ last.cause = "PermissionError"
    /\ last.value = None

====
